---- MODULE Spec2Model ----
(***************************************************************************)
(* A model of user-hotdeal-bot's storage-and-serving tier: the articles    *)
(* table and ArticleRepository (src/src/db/repository.py), the scoped      *)
(* session of src/src/db/session.py, and the authentication / rate-limit   *)
(* dependency of src/src/api/deps.py.                                      *)
(*                                                                         *)
(* A column value is a tuple of length at most one: <<>> is SQL NULL (or   *)
(* Python None) and <<v>> is the value v.                                  *)
(***************************************************************************)
EXTENDS Integers, Sequences, FiniteSets, TLC

VARIABLES
    dialect,    \* session.bind.dialect.name of the engine
    now,        \* the clock read by datetime.now(), func.now() and ULID()
    db,         \* the committed database: one field per table
    tx,         \* the tables as the open session's transaction sees them
    scope,      \* the get_async_session scope: its state and what it has done
    ret,        \* the last repository call: operation, arguments, outcome
    steps,      \* number of repository calls, or of API requests, made so far
    req,        \* the API request in flight: its place, what it sent and got
    proc        \* the process: the engines made, the cached one, the last call

vars == <<dialect, now, db, tx, scope, ret, steps, req, proc>>

----------------------------------------------------------------------------
(* Bounds of the model *)

MaxTick == 1        \* the clock runs from T0 to T0 + MaxTick
MaxSteps == 2       \* repository calls explored per behaviour
MaxRequests == 4    \* API requests explored per behaviour
MaxElapsed == 61    \* seconds the clock advances while requests are served
MaxEngines == 3     \* engines constructed per behaviour
MaxCalls == 6       \* check_and_increment calls per behaviour

(* The values the random part of a ULID is drawn from *)
Rands == {0, 1}

----------------------------------------------------------------------------
(* Column values *)

Null == <<>>
Some(v) == <<v>>
Val(o) == o[1]

Min(a, b) == IF a < b THEN a ELSE b

----------------------------------------------------------------------------
(* ULID strings: 10 Crockford base-32 digits of the millisecond timestamp  *)
(* followed by 16 digits of randomness.  A string is the sequence of its   *)
(* digits' values; the Crockford alphabet is in ASCII order, so comparing  *)
(* digit values compares characters.                                       *)

UlidBase == 32
UlidTimeLen == 10
UlidRandLen == 16

RECURSIVE Encode(_, _)
Encode(n, w) == IF w = 0 THEN <<>> ELSE Append(Encode(n \div UlidBase, w - 1), n % UlidBase)

UlidStr(ts, rnd) == Encode(ts, UlidTimeLen) \o Encode(rnd, UlidRandLen)

(* str(ULID()): the current time and fresh randomness *)
generate_ulid(t, rnd) == UlidStr(t, rnd)

(* The clock starts just below a carry of the timestamp digits *)
T0 == UlidBase - 1

(* The database's string comparison a < b *)
StrLess(a, b) ==
    \/ \E i \in 1..Min(Len(a), Len(b)) :
          /\ a[i] < b[i]
          /\ \A j \in 1..(i - 1) : a[j] = b[j]
    \/ /\ Len(a) < Len(b)
       /\ \A j \in 1..Len(a) : a[j] = b[j]

----------------------------------------------------------------------------
(* The articles table *)

Crawlers == {"ca", "cb"}
ArticleIds == {1, 2}

(* The natural keys the callers of the model use *)
Keys == {<<"ca", 1>>, <<"ca", 2>>, <<"cb", 1>>}

(* Columns written by upsert's update clause, all of them NOT NULL *)
UpdatedCols == {"title", "category", "site_name", "board_name", "writer_name", "url", "is_end", "extra"}

(* NOT NULL columns that a caller's field map may or may not supply *)
NotNullCols == UpdatedCols

(* Python-side column defaults of the Article model; <<>> where there is none *)
ColumnDefault(c) ==
    CASE c = "category" -> Some("")
      [] c = "is_end" -> Some(FALSE)
      [] c = "extra" -> Some("{}")
      [] OTHER -> Null

(* article_data.get(c) *)
Get(data, c) == IF c \in DOMAIN data THEN Some(data[c]) ELSE Null

(* What an INSERT built from the field map writes: the given values, the
   column defaults for what is not given, NULL elsewhere *)
InsertValues(data, id, t) ==
    [c \in UpdatedCols |-> IF c \in DOMAIN data THEN Some(data[c]) ELSE ColumnDefault(c)]
    @@ [id |-> id, crawler_name |-> data.crawler_name, article_id |-> data.article_id,
        created_at |-> Some(t), updated_at |-> Some(t), deleted_at |-> Null]

SameKey(r, crawler_name, article_id) ==
    r.crawler_name = crawler_name /\ r.article_id = article_id

RowsByKey(T, crawler_name, article_id) == {r \in T : SameKey(r, crawler_name, article_id)}

ViolatesNotNull(vals) == \E c \in NotNullCols : vals[c] = Null

(* The SET clause of the SQLite branch: excluded.<column>, the values the
   INSERT would have written *)
SqliteUpdateValues(ins) == [c \in UpdatedCols |-> ins[c]]

(* The update_values of the MySQL/MariaDB branch: article_data.get(<column>).
   A None bound to the JSON column extra is written as the JSON text null. *)
MysqlUpdateValues(data) ==
    [c \in UpdatedCols |->
        IF c = "extra" /\ Get(data, c) = Null THEN Some("null") ELSE Get(data, c)]

_is_mysql_session(d) == d \in {"mysql", "mariadb"}

(* The conflict update without the refresh of updated_at *)
ConflictUpdateStale(r, set, t) ==
    [c \in DOMAIN r |->
        IF c \in UpdatedCols THEN set[c]
        ELSE IF c = "deleted_at" THEN Null
        ELSE r[c]]

(* The conflict update without the clearing of deleted_at *)
ConflictUpdateKeepDeleted(r, set, t) ==
    [c \in DOMAIN r |->
        IF c \in UpdatedCols THEN set[c]
        ELSE IF c = "updated_at" THEN Some(t)
        ELSE r[c]]

(* The row after the conflict update: the SET columns, updated_at = now(),
   deleted_at = NULL; id, the natural key and created_at are kept *)
ConflictUpdate(r, set, t) ==
    [c \in DOMAIN r |->
        IF c \in UpdatedCols THEN set[c]
        ELSE IF c = "updated_at" THEN Some(t)
        ELSE IF c = "deleted_at" THEN Null
        ELSE r[c]]

(* ArticleRepository.upsert on table T: the insert-or-update statement and
   the re-fetch by natural key.  ok = FALSE is the IntegrityError of a NOT
   NULL column left without a value (in the INSERT on both dialects, in the
   update clause on MySQL/MariaDB in strict SQL mode, their default). *)
upsert(T, data, id, t, d) ==
    LET ins == InsertValues(data, id, t)
        old == RowsByKey(T, data.crawler_name, data.article_id)
        set == IF _is_mysql_session(d) THEN MysqlUpdateValues(data) ELSE SqliteUpdateValues(ins)
    IN  IF ViolatesNotNull(ins) THEN [ok |-> FALSE, rows |-> T, out |-> Null]
        ELSE IF old = {} THEN [ok |-> TRUE, rows |-> T \cup {ins}, out |-> Some(ins)]
        ELSE IF ViolatesNotNull(set) THEN [ok |-> FALSE, rows |-> T, out |-> Null]
        ELSE LET r == CHOOSE x \in old : TRUE
                 u == ConflictUpdate(r, set, t)
             IN  [ok |-> TRUE, rows |-> (T \ {r}) \cup {u}, out |-> Some(u)]

(* A create on a table without the unique constraint uix_crawler_article *)
createNoUnique(T, data, id, t) ==
    LET ins == InsertValues(data, id, t)
    IN  IF ViolatesNotNull(ins)
        THEN [ok |-> FALSE, rows |-> T, out |-> Null]
        ELSE [ok |-> TRUE, rows |-> T \cup {ins}, out |-> Some(ins)]

(* ArticleRepository.create on table T: the ORM INSERT of the flush.  ok =
   FALSE is the IntegrityError of a missing NOT NULL value or of the unique
   constraint uix_crawler_article. *)
create(T, data, id, t) ==
    LET ins == InsertValues(data, id, t)
    IN  IF ViolatesNotNull(ins) \/ RowsByKey(T, data.crawler_name, data.article_id) # {}
        THEN [ok |-> FALSE, rows |-> T, out |-> Null]
        ELSE [ok |-> TRUE, rows |-> T \cup {ins}, out |-> Some(ins)]

(* A bulk upsert that skips an item whose natural key came earlier in the
   batch *)
RECURSIVE bulk_upsert_first_wins(_, _, _, _, _, _)
bulk_upsert_first_wins(T, batch, ids, i, t, d) ==
    IF i > Len(batch) THEN [ok |-> TRUE, rows |-> T, out |-> Some(Len(batch))]
    ELSE IF \E j \in 1..(i - 1) : SameKey(batch[j], batch[i].crawler_name, batch[i].article_id)
    THEN bulk_upsert_first_wins(T, batch, ids, i + 1, t, d)
    ELSE LET u == upsert(T, batch[i], ids[i], t, d)
         IN  IF u.ok THEN bulk_upsert_first_wins(u.rows, batch, ids, i + 1, t, d)
             ELSE [ok |-> FALSE, rows |-> u.rows, out |-> Null]

(* ArticleRepository.bulk_upsert: upsert applied to each item in list order;
   the first failing item raises and the items before it stay written in the
   transaction.  ids[i] is the identifier generated for item i. *)
RECURSIVE bulk_upsert(_, _, _, _, _, _)
bulk_upsert(T, batch, ids, i, t, d) ==
    IF i > Len(batch) THEN [ok |-> TRUE, rows |-> T, out |-> Some(Len(batch))]
    ELSE LET u == upsert(T, batch[i], ids[i], t, d)
         IN  IF u.ok THEN bulk_upsert(u.rows, batch, ids, i + 1, t, d)
             ELSE [ok |-> FALSE, rows |-> u.rows, out |-> Null]

(* The row after the ORM UPDATE of a soft delete: deleted_at = datetime.now()
   and, by the column's onupdate, updated_at = now() *)
MarkDeleted(r, t) == [r EXCEPT !.deleted_at = Some(t), !.updated_at = Some(t)]

get_by_id(T, id) == {r \in T : r.id = id}

get_by_crawler_and_article_id(T, crawler_name, article_id) == RowsByKey(T, crawler_name, article_id)

(* A delete that removes the row *)
soft_delete_removing(T, id, t) ==
    LET found == get_by_id(T, id)
    IN  IF found = {} THEN [ok |-> TRUE, rows |-> T, out |-> Some(FALSE)]
        ELSE [ok |-> TRUE, rows |-> T \ found, out |-> Some(TRUE)]

soft_delete(T, id, t) ==
    LET found == get_by_id(T, id)
    IN  IF found = {} THEN [ok |-> TRUE, rows |-> T, out |-> Some(FALSE)]
        ELSE [ok |-> TRUE, rows |-> (T \ found) \cup {MarkDeleted(r, t) : r \in found},
              out |-> Some(TRUE)]

soft_delete_by_crawler(T, crawler_name, article_id, t) ==
    LET found == get_by_crawler_and_article_id(T, crawler_name, article_id)
    IN  IF found = {} THEN [ok |-> TRUE, rows |-> T, out |-> Some(FALSE)]
        ELSE [ok |-> TRUE, rows |-> (T \ found) \cup {MarkDeleted(r, t) : r \in found},
              out |-> Some(TRUE)]

(* The filters with a cursor that admits the row whose id is the cursor *)
MatchesInclusive(r, after, crawler, site, is_end, include_deleted) ==
    /\ after # Null => ~StrLess(r.id, Val(after))
    /\ crawler # Null => r.crawler_name = Val(crawler)
    /\ site # Null => r.site_name = site
    /\ is_end # Null => r.is_end = is_end
    /\ ~include_deleted => r.deleted_at = Null

(* A filter argument that is None matches every row *)
Matches(r, after, crawler, site, is_end, include_deleted) ==
    /\ after # Null => StrLess(Val(after), r.id)
    /\ crawler # Null => r.crawler_name = Val(crawler)
    /\ site # Null => r.site_name = site
    /\ is_end # Null => r.is_end = is_end
    /\ ~include_deleted => r.deleted_at = Null

(* An ordering that puts the oldest row first *)
RECURSIVE OrderByIdAsc(_)
OrderByIdAsc(S) ==
    IF S = {} THEN <<>>
    ELSE LET top == CHOOSE r \in S : \A o \in S \ {r} : StrLess(r.id, o.id)
         IN  <<top>> \o OrderByIdAsc(S \ {top})

(* ORDER BY id DESC *)
RECURSIVE OrderByIdDesc(_)
OrderByIdDesc(S) ==
    IF S = {} THEN <<>>
    ELSE LET top == CHOOSE r \in S : \A o \in S \ {r} : StrLess(o.id, r.id)
         IN  <<top>> \o OrderByIdDesc(S \ {top})

(* OFFSET offset LIMIT limit *)
Page(s, offset, limit) ==
    SubSeq(s, offset + 1, Min(Len(s), offset + limit))

(* A listing whose count query leaves out the soft-delete filter *)
list_articles_count_deleted(T, after, crawler, site, is_end, include_deleted, limit, offset) ==
    LET page == {r \in T : Matches(r, after, crawler, site, is_end, include_deleted)}
        counted == {r \in T : Matches(r, after, crawler, site, is_end, TRUE)}
    IN  [articles |-> Page(OrderByIdDesc(page), offset, limit), total |-> Cardinality(counted)]

(* ArticleRepository.list_articles: the page query and the count query *)
list_articles(T, after, crawler, site, is_end, include_deleted, limit, offset) ==
    LET page == {r \in T : Matches(r, after, crawler, site, is_end, include_deleted)}
        counted == {r \in T : Matches(r, after, crawler, site, is_end, include_deleted)}
    IN  [articles |-> Page(OrderByIdDesc(page), offset, limit), total |-> Cardinality(counted)]

----------------------------------------------------------------------------
(* The field maps callers pass: complete ones, one that leaves out the
   columns that have defaults, one that holds the natural key only *)

Payload(v) ==
    CASE v = "full1" -> [title |-> "t1", category |-> "c1", site_name |-> "s1", board_name |-> "b1",
                         writer_name |-> "w1", url |-> "u1", is_end |-> FALSE, extra |-> "e1"]
      [] v = "full2" -> [title |-> "t2", category |-> "c1", site_name |-> "s2", board_name |-> "b1",
                         writer_name |-> "w1", url |-> "u1", is_end |-> TRUE, extra |-> "e1"]
      [] v = "partial" -> [title |-> "t1", site_name |-> "s1", board_name |-> "b1",
                           writer_name |-> "w1", url |-> "u1"]
      [] OTHER -> <<>>

Payloads == {"full1", "full2", "partial", "bare"}

FieldMap(c, a, v) == [crawler_name |-> c, article_id |-> a] @@ Payload(v)

(* Every payload on one key, and some payloads on the other keys *)
FieldMaps ==
    {FieldMap("ca", 1, v) : v \in Payloads}
    \cup {FieldMap("ca", 2, "full2"), FieldMap("cb", 1, "full1"), FieldMap("cb", 1, "partial")}

(* The batches passed to bulk_upsert: none, one natural key twice, and
   batches whose second item is a different key, valid or not *)
Batches ==
    {<<>>,
     <<FieldMap("ca", 1, "full1"), FieldMap("ca", 1, "full2")>>,
     <<FieldMap("cb", 1, "partial"), FieldMap("ca", 2, "full2")>>,
     <<FieldMap("ca", 2, "full2"), FieldMap("cb", 1, "bare")>>}

IsComplete(data) == UpdatedCols \subseteq DOMAIN data

(* Identifiers a fresh ULID() can take at time t: the 80 random bits are
   taken never to repeat an identifier already in the table *)
FreshIds(T, t) == {generate_ulid(t, rnd) : rnd \in Rands} \ {r.id : r \in T}

(* Cursor strings a caller may pass: identifiers of rows, a bare timestamp
   prefix, the empty string *)
IdStrings(T) == {r.id : r \in T} \cup {Encode(T0 + 1, UlidTimeLen), <<>>}

(* Primary keys passed to soft_delete: those of the rows, and one of no row *)
PrimaryKeys(T) == {r.id : r \in T} \cup {UlidStr(0, 0)}

(* Tables the database can hold when the model starts: rows that earlier
   create and soft_delete calls have committed *)
SeedOne == create({}, FieldMap("ca", 1, "full1"), generate_ulid(T0 - 2, 0), T0 - 2).rows

SeedTwo == create(SeedOne, FieldMap("cb", 1, "full2"), generate_ulid(T0 - 1, 1), T0 - 1).rows

SeedDeleted == soft_delete_by_crawler(SeedTwo, "ca", 1, T0 - 1).rows

SeedTables == {{}, SeedTwo, SeedDeleted}

----------------------------------------------------------------------------
(* Text: a str value is the sequence of its characters *)

UpperLetters ==
    <<"A", "B", "C", "D", "E", "F", "G", "H", "I", "J", "K", "L", "M",
      "N", "O", "P", "Q", "R", "S", "T", "U", "V", "W", "X", "Y", "Z">>

LowerLetters ==
    <<"a", "b", "c", "d", "e", "f", "g", "h", "i", "j", "k", "l", "m",
      "n", "o", "p", "q", "r", "s", "t", "u", "v", "w", "x", "y", "z">>

LowerChar(c) ==
    IF \E i \in DOMAIN UpperLetters : UpperLetters[i] = c
    THEN LowerLetters[CHOOSE i \in DOMAIN UpperLetters : UpperLetters[i] = c]
    ELSE c

(* str.lower() *)
lower(s) == [i \in 1..Len(s) |-> LowerChar(s[i])]

Whitespace == {" ", "\t", "\n"}

RECURSIVE lstrip(_)
lstrip(s) == IF s # <<>> /\ Head(s) \in Whitespace THEN lstrip(Tail(s)) ELSE s

RECURSIVE rstrip(_)
rstrip(s) ==
    IF s # <<>> /\ s[Len(s)] \in Whitespace THEN rstrip(SubSeq(s, 1, Len(s) - 1)) ELSE s

DecimalDigits == <<"0", "1", "2", "3", "4", "5", "6", "7", "8", "9">>

IsDigit(c) == \E i \in DOMAIN DecimalDigits : DecimalDigits[i] = c

DigitValue(c) == (CHOOSE i \in DOMAIN DecimalDigits : DecimalDigits[i] = c) - 1

(* The digits of an integer literal, with single underscores between digits *)
IsDigitString(s) ==
    /\ s # <<>>
    /\ \A i \in 1..Len(s) :
          \/ IsDigit(s[i])
          \/ /\ s[i] = "_"
             /\ 1 < i /\ i < Len(s)
             /\ IsDigit(s[i - 1]) /\ IsDigit(s[i + 1])

RECURSIVE DigitsValue(_, _)
DigitsValue(s, acc) ==
    IF s = <<>> THEN acc
    ELSE DigitsValue(Tail(s), IF Head(s) = "_" THEN acc ELSE 10 * acc + DigitValue(Head(s)))

(* int(value) of a str: the integer, or Null where Python raises ValueError *)
int(s) ==
    LET body == rstrip(lstrip(s))
        signed == body # <<>> /\ Head(body) \in {"+", "-"}
        digits == IF signed THEN Tail(body) ELSE body
    IN  IF ~IsDigitString(digits) THEN Null
        ELSE IF signed /\ Head(body) = "-" THEN Some(0 - DigitsValue(digits, 0))
        ELSE Some(DigitsValue(digits, 0))

----------------------------------------------------------------------------
(* SettingsRepository *)

GUEST_RATE_LIMIT_PER_MINUTE == "guest_rate_limit_per_minute"
GUEST_ACCESS_ENABLED == "guest_access_enabled"

TruthyWords ==
    {<<"t", "r", "u", "e">>, <<"1">>, <<"y", "e", "s">>, <<"o", "n">>}

(* SettingsRepository.get: the stored value, or the default *)
get(S, key, default) ==
    LET found == {s \in S : s.key = key}
    IN  IF found = {} THEN default ELSE Some((CHOOSE s \in found : TRUE).value)

(* A get_int that answers 0 for a value that does not parse *)
get_int_or_zero(S, key, default) ==
    LET value == get(S, key, Null)
    IN  IF value = Null THEN default
        ELSE IF int(Val(value)) = Null THEN 0
        ELSE Val(int(Val(value)))

get_int(S, key, default) ==
    LET value == get(S, key, Null)
    IN  IF value = Null THEN default
        ELSE IF int(Val(value)) = Null THEN default
        ELSE Val(int(Val(value)))

(* A get_bool that falls back to the default for every value it does not
   recognise as true *)
get_bool_or_default(S, key, default) ==
    LET value == get(S, key, Null)
    IN  IF value = Null THEN default
        ELSE IF lower(Val(value)) \in TruthyWords THEN TRUE
        ELSE default

(* A get_bool that compares the stored text as it is *)
get_bool_case_sensitive(S, key, default) ==
    LET value == get(S, key, Null)
    IN  IF value = Null THEN default
        ELSE Val(value) \in TruthyWords

get_bool(S, key, default) ==
    LET value == get(S, key, Null)
    IN  IF value = Null THEN default
        ELSE lower(Val(value)) \in TruthyWords

(* SettingsRepository.set: update the row of the key, or insert it *)
set_setting(S, key, value) ==
    {s \in S : s.key # key} \cup {[key |-> key, value |-> value]}

----------------------------------------------------------------------------
(* ApiKeyRepository *)

(* A lookup that ignores is_active *)
get_by_key_any(K, key) == {k \in K : k.key = key}

(* ApiKeyRepository.get_by_key: the rows scalar_one_or_none chooses from *)
get_by_key(K, key) == {k \in K : k.key = key /\ k.is_active}

(* An update_last_used that writes nothing *)
update_last_used_never(K, key, t) == K

update_last_used(K, key, t) ==
    LET found == get_by_key(K, key)
    IN  (K \ found) \cup {[k EXCEPT !.last_used_at = Some(t)] : k \in found}

----------------------------------------------------------------------------
(* GuestRateLimitRepository and ApiKeyRateLimitRepository *)

(* The record of an identity, of the one-row result of its query *)
TheRow(rows) == CHOOSE r \in rows : TRUE

Window == 60    \* timedelta(minutes=1), in seconds

(* A check that admits one request more than the limit *)
guest_check_and_increment_one_more(G, ip_address, limit_per_minute, t) ==
    LET found == {g \in G : g.ip_address = ip_address}
        rate_limit == CHOOSE g \in found : TRUE
    IN  IF found = {}
        THEN [allowed |-> TRUE,
              rows |-> G \cup {[ip_address |-> ip_address, request_count |-> 1, window_start |-> t]}]
        ELSE IF t - rate_limit.window_start > Window
        THEN [allowed |-> TRUE,
              rows |-> (G \ found) \cup
                       {[rate_limit EXCEPT !.request_count = 1, !.window_start = t]}]
        ELSE IF rate_limit.request_count > limit_per_minute
        THEN [allowed |-> FALSE, rows |-> G]
        ELSE [allowed |-> TRUE,
              rows |-> (G \ found) \cup {[rate_limit EXCEPT !.request_count = @ + 1]}]

(* A check whose window lasts less than half a minute *)
guest_check_and_increment_half_window(G, ip_address, limit_per_minute, t) ==
    LET found == {g \in G : g.ip_address = ip_address}
        rate_limit == CHOOSE g \in found : TRUE
    IN  IF found = {}
        THEN [allowed |-> TRUE,
              rows |-> G \cup {[ip_address |-> ip_address, request_count |-> 1, window_start |-> t]}]
        ELSE IF 2 * (t - rate_limit.window_start) >= Window
        THEN [allowed |-> TRUE,
              rows |-> (G \ found) \cup
                       {[rate_limit EXCEPT !.request_count = 1, !.window_start = t]}]
        ELSE IF rate_limit.request_count >= limit_per_minute
        THEN [allowed |-> FALSE, rows |-> G]
        ELSE [allowed |-> TRUE,
              rows |-> (G \ found) \cup {[rate_limit EXCEPT !.request_count = @ + 1]}]

(* A check whose refusal restarts the window *)
guest_check_and_increment_extending(G, ip_address, limit_per_minute, t) ==
    LET found == {g \in G : g.ip_address = ip_address}
        rate_limit == CHOOSE g \in found : TRUE
    IN  IF found = {}
        THEN [allowed |-> TRUE,
              rows |-> G \cup {[ip_address |-> ip_address, request_count |-> 1, window_start |-> t]}]
        ELSE IF t - rate_limit.window_start > Window
        THEN [allowed |-> TRUE,
              rows |-> (G \ found) \cup
                       {[rate_limit EXCEPT !.request_count = 1, !.window_start = t]}]
        ELSE IF rate_limit.request_count >= limit_per_minute
        THEN [allowed |-> FALSE,
              rows |-> (G \ found) \cup {[rate_limit EXCEPT !.window_start = t]}]
        ELSE [allowed |-> TRUE,
              rows |-> (G \ found) \cup {[rate_limit EXCEPT !.request_count = @ + 1]}]

(* GuestRateLimitRepository.check_and_increment *)
guest_check_and_increment(G, ip_address, limit_per_minute, t) ==
    LET found == {g \in G : g.ip_address = ip_address}
        rate_limit == CHOOSE g \in found : TRUE
    IN  IF found = {}
        THEN [allowed |-> TRUE,
              rows |-> G \cup {[ip_address |-> ip_address, request_count |-> 1, window_start |-> t]}]
        ELSE IF t - rate_limit.window_start > Window
        THEN [allowed |-> TRUE,
              rows |-> (G \ found) \cup
                       {[rate_limit EXCEPT !.request_count = 1, !.window_start = t]}]
        ELSE IF rate_limit.request_count >= limit_per_minute
        THEN [allowed |-> FALSE, rows |-> G]
        ELSE [allowed |-> TRUE,
              rows |-> (G \ found) \cup {[rate_limit EXCEPT !.request_count = @ + 1]}]

(* ApiKeyRateLimitRepository.check_and_increment *)
api_key_check_and_increment(A, api_key_id, limit_per_minute, t) ==
    LET found == {a \in A : a.api_key_id = api_key_id}
        rate_limit == CHOOSE a \in found : TRUE
    IN  IF found = {}
        THEN [allowed |-> TRUE,
              rows |-> A \cup {[api_key_id |-> api_key_id, request_count |-> 1, window_start |-> t]}]
        ELSE IF t - rate_limit.window_start > Window
        THEN [allowed |-> TRUE,
              rows |-> (A \ found) \cup
                       {[rate_limit EXCEPT !.request_count = 1, !.window_start = t]}]
        ELSE IF rate_limit.request_count >= limit_per_minute
        THEN [allowed |-> FALSE, rows |-> A]
        ELSE [allowed |-> TRUE,
              rows |-> (A \ found) \cup {[rate_limit EXCEPT !.request_count = @ + 1]}]

----------------------------------------------------------------------------
(* verify_api_key_or_guest *)

DefaultGuestLimit == 30

Detail(text, limit) == [text |-> text, limit |-> limit]

Called(name, arg) == [call |-> name, arg |-> arg]

(* What the dependency does for one request: the repository calls it makes,
   in order, the tables it leaves in the session, and either the identity
   it returns or the HTTPException it raises *)
verify_api_key_or_guest(T, x_api_key, client, t) ==
    IF x_api_key # Null /\ Val(x_api_key) # ""
    THEN LET key == Val(x_api_key)
             found == get_by_key(T.api_keys, key)
             api_key == CHOOSE k \in found : TRUE
             lookup == <<Called("ApiKeyRepository.get_by_key", <<key>>)>>
             checked == api_key_check_and_increment(T.api_key_rate_limits, api_key.id,
                                                    api_key.rate_limit_per_minute, t)
             counted == lookup \o
                        <<Called("ApiKeyRateLimitRepository.check_and_increment",
                                 <<api_key.id, api_key.rate_limit_per_minute>>)>>
             T1 == [T EXCEPT !.api_key_rate_limits = checked.rows]
         IN  IF found = {}
             THEN [status |-> 401, detail |-> Detail("Invalid API key", Null),
                   identity |-> Null, tables |-> T, trace |-> lookup]
             ELSE IF ~checked.allowed
             THEN [status |-> 429,
                   detail |-> Detail("Rate limit exceeded. Maximum {} requests per minute.",
                                     Some(api_key.rate_limit_per_minute)),
                   identity |-> Null, tables |-> T1, trace |-> counted]
             ELSE [status |-> 0, detail |-> Detail("", Null), identity |-> x_api_key,
                   tables |-> [T1 EXCEPT !.api_keys = update_last_used(T1.api_keys, key, t)],
                   trace |-> counted \o <<Called("ApiKeyRepository.update_last_used", <<key>>)>>]
    ELSE LET guest_enabled == get_bool(T.settings, GUEST_ACCESS_ENABLED, TRUE)
             asked == <<Called("SettingsRepository.get_bool", <<GUEST_ACCESS_ENABLED>>)>>
             client_ip == IF client # Null THEN Val(client) ELSE "unknown"
             guest_rate_limit == get_int(T.settings, GUEST_RATE_LIMIT_PER_MINUTE, DefaultGuestLimit)
             checked == guest_check_and_increment(T.guest_rate_limits, client_ip,
                                                  guest_rate_limit, t)
             counted == asked \o
                        <<Called("SettingsRepository.get_int", <<GUEST_RATE_LIMIT_PER_MINUTE>>),
                          Called("GuestRateLimitRepository.check_and_increment",
                                 <<client_ip, guest_rate_limit>>)>>
             T1 == [T EXCEPT !.guest_rate_limits = checked.rows]
         IN  IF ~guest_enabled
             THEN [status |-> 401,
                   detail |-> Detail("API key required. Guest access is disabled.", Null),
                   identity |-> Null, tables |-> T, trace |-> asked]
             ELSE IF ~checked.allowed
             THEN [status |-> 429,
                   detail |-> Detail("Rate limit exceeded. Maximum {} requests per minute for guests.",
                                     Some(guest_rate_limit)),
                   identity |-> Null, tables |-> T1, trace |-> counted]
             ELSE [status |-> 0, detail |-> Detail("", Null), identity |-> Null,
                   tables |-> T1, trace |-> counted]

----------------------------------------------------------------------------
(* The API: one request at a time travels through FastAPI's dependency
   resolution, its route handler and the exit of its session scope *)

BusinessRoutes ==
    {"/api/v1/articles", "/api/v1/articles/{article_id}", "/api/v1/crawlers",
     "/api/v1/crawlers/sites", "/feed/rss.xml", "/feed/atom.xml"}

OpenRoutes == {"/health", "/"}

(* The routes whose handler declares _auth: AuthResult *)
HasAuthDependencyButFeeds(route) ==
    route \in BusinessRoutes \ {"/feed/rss.xml", "/feed/atom.xml"}

HasAuthDependency(route) == route \in BusinessRoutes

(* The routes whose handler declares an ArticleRepo or a DbSession *)
HasSessionDependency(route) == route \in BusinessRoutes

IdleRequest ==
    [pc |-> "idle", route |-> "", x_api_key |-> Null, client |-> Null, trace |-> <<>>,
     auth |-> "none", status |-> 0, detail |-> Detail("", Null), identity |-> Null,
     queries |-> 0]

(* The ApiKey rows of the deployment: an active key and a revoked one *)
ApiKeySeed ==
    {[id |-> 1, key |-> "key-a", rate_limit_per_minute |-> 2, is_active |-> TRUE,
      last_used_at |-> Null],
     [id |-> 2, key |-> "key-b", rate_limit_per_minute |-> 2, is_active |-> FALSE,
      last_used_at |-> Null]}

KeyIds == {k.id : k \in ApiKeySeed}

ClientIps == {"10.0.0.1", "unknown"}

(* The X-Api-Key header of a request: absent, empty, an active key, a
   revoked key, a key nobody issued *)
HeaderSamples == {Null, Some(""), Some("key-a"), Some("key-b"), Some("key-z")}

Sent(route, x_api_key, client) == [route |-> route, x_api_key |-> x_api_key, client |-> client]

(* The requests clients send: every header on one route, every route with
   some header; request.client is the peer's address, or None *)
RequestSamples ==
    {Sent("/api/v1/articles", h, Some("10.0.0.1")) : h \in HeaderSamples}
    \cup {Sent("/api/v1/articles", Null, Null),
          Sent("/api/v1/articles/{article_id}", Null, Some("10.0.0.1")),
          Sent("/api/v1/articles/{article_id}", Some("key-a"), Some("10.0.0.1")),
          Sent("/api/v1/crawlers", Some("key-a"), Null),
          Sent("/api/v1/crawlers/sites", Some(""), Null),
          Sent("/feed/rss.xml", Some("key-b"), Some("10.0.0.1")),
          Sent("/feed/atom.xml", Null, Some("10.0.0.1")),
          Sent("/health", Some("key-z"), Some("10.0.0.1")),
          Sent("/", Null, Null)}

SettingValue(word) ==
    CASE word = "false" -> <<"f", "a", "l", "s", "e">>
      [] word = "True" -> <<"T", "r", "u", "e">>
      [] word = "2" -> <<"2">>
      [] word = "1" -> <<"1">>

(* The settings table at start: guest_access_enabled absent or stored, the
   guest limit absent or a number *)
SettingsSeeds ==
    {{}, {[key |-> GUEST_RATE_LIMIT_PER_MINUTE, value |-> SettingValue("2")]},
     {[key |-> GUEST_ACCESS_ENABLED, value |-> SettingValue("True")],
      [key |-> GUEST_RATE_LIMIT_PER_MINUTE, value |-> SettingValue("1")]}}

(* History of the check_and_increment calls of each identity, kept with
   the tables so that it commits and rolls back with them: the calls made
   in the identity's current window and the windows started *)
NoHistory ==
    [guest |-> [ip \in ClientIps |-> [calls |-> 0, windows |-> 0]],
     key |-> [id \in KeyIds |-> [calls |-> 0, windows |-> 0]]]

Tables(A, K, S) ==
    [articles |-> A, api_keys |-> K, guest_rate_limits |-> {}, api_key_rate_limits |-> {},
     settings |-> S, history |-> NoHistory]

(* One more call in the history: it starts a window when it creates the
   record or moves its window_start, and continues the window otherwise *)
CountCall(h, old, new) ==
    IF old = {} \/ (CHOOSE r \in new : TRUE).window_start # (CHOOSE r \in old : TRUE).window_start
    THEN [calls |-> 1, windows |-> h.windows + 1]
    ELSE [calls |-> h.calls + 1, windows |-> h.windows]

GuestRow(T, ip) == {g \in T.guest_rate_limits : g.ip_address = ip}

KeyRow(T, id) == {a \in T.api_key_rate_limits : a.api_key_id = id}

LastCall(trace) == trace[Len(trace)]

(* The tables a dependency leaves, with the history of the counter it called *)
Recorded(T, res) ==
    IF res.trace # <<>> /\ LastCall(res.trace).call = "GuestRateLimitRepository.check_and_increment"
    THEN LET ip == LastCall(res.trace).arg[1]
         IN  [res.tables EXCEPT !.history.guest[ip] = CountCall(@, GuestRow(T, ip), GuestRow(res.tables, ip))]
    ELSE IF \E i \in DOMAIN res.trace : res.trace[i].call = "ApiKeyRateLimitRepository.check_and_increment"
    THEN LET id == res.trace[2].arg[1]
         IN  [res.tables EXCEPT !.history.key[id] = CountCall(@, KeyRow(T, id), KeyRow(res.tables, id))]
    ELSE res.tables

----------------------------------------------------------------------------
(* The engines of the process (src/src/db/session.py).  An engine is known
   by its place in the sequence of the engines constructed so far. *)

(* No engine constructed, none cached, the application not started, no
   configuration loaded (_config is None) *)
NoProcess ==
    [engines |-> <<>>, engine |-> Null, closing |-> Null, app |-> "stopped",
     last |-> "none", got |-> Null, bound |-> Null, config |-> Null]

(* get_async_engine(): create_async_engine constructs a new engine; via
   names the function that asked for it *)
get_async_engine(P, via) ==
    [P EXCEPT !.engines = Append(@, [via |-> via, disposed |-> FALSE])]

(* A get_engine that constructs an engine at every call *)
get_engine_uncached(P) ==
    LET Q == get_async_engine(P, "get_engine")
    IN  [Q EXCEPT !.engine = Some(Len(Q.engines)), !.got = Some(Len(Q.engines)),
                  !.last = "get_engine"]

(* get_engine(): the cached engine, constructed at the first call *)
get_engine(P) ==
    IF P.engine = Null
    THEN LET Q == get_async_engine(P, "get_engine")
         IN  [Q EXCEPT !.engine = Some(Len(Q.engines)), !.got = Some(Len(Q.engines)),
                       !.last = "get_engine"]
    ELSE [P EXCEPT !.got = P.engine, !.last = "get_engine"]

(* close_db() up to its await: with an engine cached, dispose it *)
close_db_dispose(P) ==
    IF P.engine = Null THEN [P EXCEPT !.last = "close_db", !.got = Null]
    ELSE [P EXCEPT !.engines[Val(P.engine)].disposed = TRUE, !.closing = P.engine,
                   !.last = "close_db", !.got = Null]

(* close_db() after its await: clear the cached reference *)
close_db_clear(P) == [P EXCEPT !.engine = Null, !.closing = Null]

(* get_async_session(engine): the engine the session is bound to; with no
   engine given, one from get_async_engine() *)
get_async_session(P, engine) ==
    IF engine = Null
    THEN LET Q == get_async_engine(P, "get_async_session")
         IN  [Q EXCEPT !.bound = Some(Len(Q.engines)), !.last = "get_async_session()",
                       !.got = Null]
    ELSE [P EXCEPT !.bound = engine, !.last = "get_async_session(engine)", !.got = Null]

----------------------------------------------------------------------------
(* The scoped session of get_async_session *)

ClosedScope == [st |-> "closed", commits |-> 0, rollbacks |-> 0, released |-> 0, error |-> Null]

(* async with get_async_session(engine) as session: a new session, whose
   transaction starts from the committed database *)
Enter ==
    /\ scope.st = "closed"
    /\ steps < MaxSteps
    /\ scope' = [st |-> "open", commits |-> 0, rollbacks |-> 0, released |-> 0, error |-> Null]
    /\ tx' = db
    /\ UNCHANGED <<dialect, now, db, ret, steps, req, proc>>

InBody == scope.st = "open" /\ steps < MaxSteps

(* Whether a call repeats the previous call: the same operation with the
   same argument, on a table that still holds what the previous call wrote *)
Repeats(op, arg) ==
    /\ ret.op = op
    /\ ret.arg = arg
    /\ (ret.ok /\ op \in {"create", "upsert"}) => Val(ret.out) \in tx.articles

(* The effect of a repository call made in the body of the scope.  A call
   that raises ends the body: the error propagates to the scope's handler.
   A flush that fails has already rolled the session's transaction back. *)
Call(op, arg, res, flushFailed) ==
    /\ steps' = steps + 1
    /\ ret' = [op |-> op, arg |-> arg, ok |-> res.ok, out |-> res.out,
               rep |-> Repeats(op, arg)]
    /\ tx' = IF flushFailed THEN db ELSE [tx EXCEPT !.articles = res.rows]
    /\ scope' = IF res.ok THEN scope
                ELSE [scope EXCEPT !.st = "raised", !.error = Some("IntegrityError")]
    /\ UNCHANGED <<dialect, now, db, req, proc>>

BulkUpsert ==
    /\ InBody
    /\ \E batch \in Batches : \E ids \in [1..Len(batch) -> FreshIds(tx.articles, now)] :
          /\ \A i, j \in 1..Len(batch) : ids[i] = ids[j] => i = j
          /\ Call("bulk_upsert", batch, bulk_upsert(tx.articles, batch, ids, 1, now, dialect), FALSE)

(* The body raises an error of its own, e.g. a route handler's HTTPException *)
Raise ==
    /\ scope.st = "open"
    /\ scope' = [scope EXCEPT !.st = "raised", !.error = Some("HTTPException")]
    /\ UNCHANGED <<dialect, now, db, tx, ret, steps, req, proc>>

Create ==
    /\ InBody
    /\ \E data \in FieldMaps : \E id \in FreshIds(tx.articles, now) :
          LET res == create(tx.articles, data, id, now)
          IN  Call("create", data, res, ~res.ok)

Upsert ==
    /\ InBody
    /\ \E data \in FieldMaps : \E id \in FreshIds(tx.articles, now) :
          Call("upsert", data, upsert(tx.articles, data, id, now, dialect), FALSE)

SoftDelete ==
    /\ InBody
    /\ \E id \in PrimaryKeys(tx.articles) :
          Call("soft_delete", id, soft_delete(tx.articles, id, now), FALSE)

SoftDeleteByCrawler ==
    /\ InBody
    /\ \E k \in Keys :
          Call("soft_delete_by_crawler", k, soft_delete_by_crawler(tx.articles, k[1], k[2], now), FALSE)

(* The arguments callers pass to list_articles: a cursor or none, some
   filters, include_deleted, and a page *)
FilterSamples ==
    {[crawler |-> Null, site |-> Null, is_end |-> Null],
     [crawler |-> Some("ca"), site |-> Null, is_end |-> Null],
     [crawler |-> Null, site |-> Some("s2"), is_end |-> Some(TRUE)]}

PageSamples == {[limit |-> 50, offset |-> 0], [limit |-> 1, offset |-> 1]}

ListArgs(T) ==
    {[after |-> c, crawler |-> f.crawler, site |-> f.site, is_end |-> f.is_end,
      include_deleted |-> d, limit |-> p.limit, offset |-> p.offset] :
        c \in {Null} \cup {Some(i) : i \in IdStrings(T)},
        f \in FilterSamples, d \in BOOLEAN, p \in PageSamples}

ListArticles ==
    /\ InBody
    /\ \E a \in ListArgs(tx.articles) :
          LET res == list_articles(tx.articles, a.after, a.crawler, a.site, a.is_end,
                                   a.include_deleted, a.limit, a.offset)
          IN  Call("list_articles", a, [ok |-> TRUE, rows |-> tx.articles, out |-> Some(res)], FALSE)

(* The scope's exits.  The body completed: commit.  The body raised an
   Exception: rollback, and the error is raised again.  In both cases the
   session maker's context closes the session. *)
ExitCommit ==
    /\ scope.st = "open"
    /\ db' = tx
    /\ scope' = [scope EXCEPT !.st = "closed", !.commits = @ + 1, !.released = @ + 1]
    /\ UNCHANGED <<dialect, now, tx, ret, steps, req, proc>>

(* An error handler that commits instead of rolling back *)
ExitRollbackCommits ==
    /\ scope.st = "raised"
    /\ db' = tx
    /\ scope' = [scope EXCEPT !.st = "closed", !.commits = @ + 1, !.released = @ + 1]
    /\ UNCHANGED <<dialect, now, tx, ret, steps, req, proc>>

(* A rollback that leaves what the session had flushed *)
ExitRollbackKeepsFlushed ==
    /\ scope.st = "raised"
    /\ db' = tx
    /\ scope' = [scope EXCEPT !.st = "closed", !.rollbacks = @ + 1, !.released = @ + 1]
    /\ UNCHANGED <<dialect, now, tx, ret, steps, req, proc>>

ExitRollback ==
    /\ scope.st = "raised"
    /\ tx' = db
    /\ scope' = [scope EXCEPT !.st = "closed", !.rollbacks = @ + 1, !.released = @ + 1]
    /\ UNCHANGED <<dialect, now, db, ret, steps, req, proc>>

(* The body is interrupted by a BaseException (a cancelled task): the
   handler for Exception does not run; closing the session discards the
   transaction *)
ExitCancelled ==
    /\ scope.st = "open"
    /\ tx' = db
    /\ scope' = [scope EXCEPT !.st = "closed", !.released = @ + 1, !.error = Some("CancelledError")]
    /\ UNCHANGED <<dialect, now, db, ret, steps, req, proc>>

Tick ==
    /\ now < T0 + MaxTick
    /\ now' = now + 1
    /\ UNCHANGED <<dialect, db, tx, scope, ret, steps, req, proc>>

Init ==
    /\ dialect \in {"sqlite", "mysql"}
    /\ now = T0
    /\ \E T \in SeedTables : db = Tables(T, {}, {})
    /\ tx = db
    /\ scope = ClosedScope
    /\ ret = [op |-> "none", arg |-> Null, ok |-> TRUE, out |-> Null, rep |-> FALSE]
    /\ steps = 0
    /\ req = IdleRequest
    /\ proc = NoProcess

Next ==
    \/ Enter
    \/ Create
    \/ Upsert
    \/ BulkUpsert
    \/ SoftDelete
    \/ SoftDeleteByCrawler
    \/ ExitCommit
    \/ ExitRollback
    \/ ExitCancelled
    \/ Raise
    \/ Tick

Spec == Init /\ [][Next]_vars

(* Readers and writers of the articles table: rows are created and soft
   deleted, and the table is listed *)
NextList ==
    \/ Enter
    \/ Create
    \/ SoftDeleteByCrawler
    \/ ListArticles
    \/ ExitCommit
    \/ ExitRollback
    \/ Tick

InitList == Init /\ dialect = "sqlite"

SpecList == InitList /\ [][NextList]_vars

----------------------------------------------------------------------------
(* Requests to the API *)

(* A request arrives.  FastAPI opens the session of a route that declares
   one, and runs the route's dependencies before its handler. *)
Receive ==
    /\ req.pc = "idle"
    /\ scope.st = "closed"
    /\ steps < MaxRequests
    /\ steps' = steps + 1
    /\ \E r \in RequestSamples :
          /\ req' = [IdleRequest EXCEPT !.route = r.route, !.x_api_key = r.x_api_key,
                        !.client = r.client,
                        !.pc = IF HasAuthDependency(r.route) THEN "auth" ELSE "handler"]
          /\ IF HasSessionDependency(r.route)
             THEN /\ scope' = [ClosedScope EXCEPT !.st = "open"]
                  /\ tx' = db
             ELSE UNCHANGED <<scope, tx>>
    /\ UNCHANGED <<dialect, now, db, ret, proc>>

(* verify_api_key_or_guest runs for the request: it returns the caller's
   identity, or raises an HTTPException that ends the request *)
Verify ==
    /\ req.pc = "auth"
    /\ LET res == verify_api_key_or_guest(tx, req.x_api_key, req.client, now)
       IN  /\ tx' = Recorded(tx, res)
           /\ req' = [req EXCEPT !.trace = res.trace, !.status = res.status,
                         !.detail = res.detail, !.identity = res.identity,
                         !.auth = IF res.status = 0 THEN "passed" ELSE "failed",
                         !.pc = IF res.status = 0 THEN "handler" ELSE "done"]
           /\ scope' = IF res.status = 0 THEN scope
                       ELSE [scope EXCEPT !.st = "raised", !.error = Some("HTTPException")]
    /\ UNCHANGED <<dialect, now, db, ret, steps, proc>>

(* The route handler runs its query and answers 200; get_article raises
   404 for an id that get_by_id does not find *)
Handler ==
    /\ req.pc = "handler"
    /\ \E id \in PrimaryKeys(tx.articles) :
          LET missing == req.route = "/api/v1/articles/{article_id}"
                         /\ get_by_id(tx.articles, id) = {}
          IN  /\ req' = [req EXCEPT !.pc = "done",
                            !.status = IF missing THEN 404 ELSE 200,
                            !.queries = IF HasSessionDependency(req.route) THEN @ + 1 ELSE @]
              /\ scope' = IF missing
                          THEN [scope EXCEPT !.st = "raised", !.error = Some("HTTPException")]
                          ELSE scope
    /\ UNCHANGED <<dialect, now, db, tx, ret, steps, proc>>

(* The request's session scope exits after the handler returned *)
CommitRequest == req.pc = "done" /\ ExitCommit

(* The request's session scope exits after an HTTPException *)
RollbackRequest == req.pc = "done" /\ ExitRollback

(* The response is sent and the request is over *)
Respond ==
    /\ req.pc = "done"
    /\ scope.st = "closed"
    /\ req' = IdleRequest
    /\ UNCHANGED <<dialect, now, db, tx, scope, ret, steps, proc>>

(* An operator turns guest access off between requests, in a session of
   its own that commits *)
SetGuestAccess ==
    /\ req.pc = "idle"
    /\ scope.st = "closed"
    /\ get(db.settings, GUEST_ACCESS_ENABLED, Null) # Some(SettingValue("false"))
    /\ db' = [db EXCEPT !.settings = set_setting(@, GUEST_ACCESS_ENABLED, SettingValue("false"))]
    /\ tx' = db'
    /\ UNCHANGED <<dialect, now, scope, ret, steps, req, proc>>

(* Time passes between requests, half a minute or a second more *)
Elapse ==
    /\ req.pc = "idle"
    /\ \E d \in {Window \div 2, Window \div 2 + 1} :
          /\ now + d <= T0 + MaxElapsed
          /\ now' = now + d
    /\ UNCHANGED <<dialect, db, tx, scope, ret, steps, req, proc>>

InitAuth ==
    /\ dialect = "sqlite"
    /\ now = T0
    /\ \E S \in SettingsSeeds : db = Tables(SeedTwo, ApiKeySeed, S)
    /\ tx = db
    /\ scope = ClosedScope
    /\ ret = [op |-> "none", arg |-> Null, ok |-> TRUE, out |-> Null, rep |-> FALSE]
    /\ steps = 0
    /\ req = IdleRequest
    /\ proc = NoProcess

NextAuth ==
    \/ Receive
    \/ Verify
    \/ Handler
    \/ CommitRequest
    \/ RollbackRequest
    \/ Respond
    \/ SetGuestAccess
    \/ Elapse

SpecAuth == InitAuth /\ [][NextAuth]_vars

----------------------------------------------------------------------------
(* Reads of the articles table: the listing, the feeds and the groupings,
   over tables that earlier create and soft_delete calls have committed *)

(* The articles crawlers have stored: two crawlers, two sites, active and
   ended deals, the last two created in the same millisecond *)
Stock ==
    <<[data |-> FieldMap("ca", 1, "full1"), t |-> T0 - 3, rnd |-> 0],
      [data |-> FieldMap("cb", 1, "full2"), t |-> T0 - 2, rnd |-> 1],
      [data |-> FieldMap("ca", 2, "full2"), t |-> T0 - 1, rnd |-> 0],
      [data |-> FieldMap("cb", 2, "full1"), t |-> T0 - 1, rnd |-> 1]>>

(* The table after create of the stock items in S, in order from item i,
   and soft_delete of those in D *)
RECURSIVE Stocked(_, _, _, _)
Stocked(T, S, D, i) ==
    IF i > Len(Stock) THEN T
    ELSE IF i \notin S THEN Stocked(T, S, D, i + 1)
    ELSE LET id == generate_ulid(Stock[i].t, Stock[i].rnd)
             made == create(T, Stock[i].data, id, Stock[i].t).rows
         IN  Stocked(IF i \in D THEN soft_delete(made, id, T0).rows ELSE made, S, D, i + 1)

ReadTables == {Stocked({}, S, D, 1) : S \in SUBSET (1..Len(Stock)), D \in SUBSET (1..Len(Stock))}

(* The limit and offset a caller passes: Query(50, ge=1, le=100) and
   Query(0, ge=0) *)
QueryPages ==
    {[limit |-> l, offset |-> o] : l \in {1, 2, 50, 100}, o \in {0, 1, 2, 4}}

QueryArgs(T) ==
    {[after |-> c, crawler |-> f.crawler, site |-> f.site, is_end |-> f.is_end,
      include_deleted |-> d, limit |-> p.limit, offset |-> p.offset] :
        c \in {Null} \cup {Some(i) : i \in IdStrings(T)},
        f \in FilterSamples \cup {[crawler |-> Some("cb"), site |-> Null, is_end |-> Some(FALSE)]},
        d \in BOOLEAN, p \in QueryPages}

(* ArticleResponse.model_validate(article): the fields of the schema, read
   from the row's attributes *)
ArticleResponse(r) ==
    [id |-> r.id, article_id |-> r.article_id, crawler_name |-> r.crawler_name,
     title |-> r.title, category |-> r.category, site_name |-> r.site_name,
     board_name |-> r.board_name, writer_name |-> r.writer_name, url |-> r.url,
     is_end |-> r.is_end, extra |-> r.extra, created_at |-> r.created_at,
     updated_at |-> r.updated_at, deleted_at |-> r.deleted_at]

(* A handler that announces more rows whenever the page is full *)
route_list_articles_full_page(T, after, crawler, site, is_end, include_deleted, limit, offset) ==
    LET res == list_articles(T, after, crawler, site, is_end, include_deleted, limit, offset)
    IN  [data |-> [i \in 1..Len(res.articles) |-> ArticleResponse(res.articles[i])],
         meta |-> [total |-> res.total, limit |-> limit, offset |-> offset,
                   has_more |-> Len(res.articles) = limit]]

(* GET /api/v1/articles: the handler of routes/articles.py *)
route_list_articles(T, after, crawler, site, is_end, include_deleted, limit, offset) ==
    LET res == list_articles(T, after, crawler, site, is_end, include_deleted, limit, offset)
        articles == res.articles
        total == res.total
        has_more == offset + Len(articles) < total
    IN  [data |-> [i \in 1..Len(articles) |-> ArticleResponse(articles[i])],
         meta |-> [total |-> total, limit |-> limit, offset |-> offset, has_more |-> has_more]]

(* GET /api/v1/articles/{article_id}: the row get_by_id finds, or 404 *)
get_article(T, article_id) ==
    LET article == get_by_id(T, article_id)
    IN  IF article = {} THEN [status |-> 404, data |-> Null]
        ELSE [status |-> 200, data |-> Some(ArticleResponse(CHOOSE r \in article : TRUE))]

(* The feed title: the base title, and the crawler or else the site it is
   about when that string is not empty *)
FeedTitle(crawler, site) ==
    IF crawler # Null /\ Val(crawler) # "" THEN [base |-> "feed", of |-> crawler]
    ELSE IF site # Null /\ Val(site) # "" THEN [base |-> "feed", of |-> site]
    ELSE [base |-> "feed", of |-> Null]

(* The entry add_entry builds for an article; text is the description of the
   RSS item or the content of the Atom entry *)
FeedEntry(article) ==
    [id |-> article.id, title |-> article.title, link |-> article.url,
     text |-> <<article.category, article.title>>, author |-> article.writer_name,
     published |-> article.created_at, updated |-> article.updated_at,
     category |-> IF article.category # Some("") THEN article.category ELSE Null]

(* A feed that also carries the ended deals *)
get_rss_feed_with_ended(T, crawler, site, limit) ==
    LET articles == list_articles(T, Null, crawler, site, Null, FALSE, limit, 0).articles
    IN  [media_type |-> "application/rss+xml", title |-> FeedTitle(crawler, site),
         entries |-> [i \in 1..Len(articles) |-> FeedEntry(articles[i])]]

(* GET /feed/rss.xml *)
get_rss_feed(T, crawler, site, limit) ==
    LET articles == list_articles(T, Null, crawler, site, Some(FALSE), FALSE, limit, 0).articles
    IN  [media_type |-> "application/rss+xml", title |-> FeedTitle(crawler, site),
         entries |-> [i \in 1..Len(articles) |-> FeedEntry(articles[i])]]

(* GET /feed/atom.xml *)
get_atom_feed(T, crawler, site, limit) ==
    LET articles == list_articles(T, Null, crawler, site, Some(FALSE), FALSE, limit, 0).articles
    IN  [media_type |-> "application/atom+xml", title |-> FeedTitle(crawler, site),
         entries |-> [i \in 1..Len(articles) |-> FeedEntry(articles[i])]]

(* The crawler, site and limit a feed reader passes: Query(None),
   Query(None) and Query(50, ge=1, le=100) *)
FeedArgs ==
    {[crawler |-> c, site |-> s, limit |-> l] :
        c \in {Null, Some("ca"), Some("")}, s \in {Null, Some("s1")}, l \in {1, 2, 50, 100}}

(* The names of the model in the order ORDER BY puts them *)
Collation == <<"", "ca", "cb", "s1", "s2">>

NameLess(a, b) ==
    \E i, j \in DOMAIN Collation : Collation[i] = a /\ Collation[j] = b /\ i < j

RECURSIVE OrderByName(_)
OrderByName(S) ==
    IF S = {} THEN <<>>
    ELSE LET first == CHOOSE n \in S : \A o \in S \ {n} : NameLess(n, o)
         IN  <<first>> \o OrderByName(S \ {first})

ColumnOf(r, col) == IF col = "crawler_name" THEN r.crawler_name ELSE Val(r[col])

(* select(col, func.count(Article.id).label("count"))
   .where(Article.deleted_at.is_(None)).group_by(col).order_by(col):
   the result rows, each with the keys col and count *)
group_by_count(T, col) ==
    LET live == {r \in T : r.deleted_at = Null}
        names == OrderByName({ColumnOf(r, col) : r \in live})
    IN  [i \in 1..Len(names) |->
            [k \in {col, "count"} |->
                IF k = col THEN names[i]
                ELSE Cardinality({r \in live : ColumnOf(r, col) = names[i]})]]

(* The attributes a Row has as a sequence; they come before its keys *)
RowMethods == {"count", "index"}

(* row.<attr>: a method of the Row, or else the value under the key *)
RowAttr(row, attr) ==
    IF attr \in RowMethods THEN [method |-> attr] ELSE [value |-> row[attr]]

(* CrawlerInfo(name=..., article_count=...) and SiteInfo: the validated
   model, or Null where validation fails because a field is no str/int *)
CrawlerInfo(name, article_count) ==
    IF "value" \in DOMAIN name /\ "value" \in DOMAIN article_count
    THEN Some([name |-> name.value, article_count |-> article_count.value])
    ELSE Null

(* GET /crawlers (col = crawler_name) and GET /crawlers/sites (col =
   site_name): status 500 is the unhandled ValidationError *)
list_by(T, col) ==
    LET rows == group_by_count(T, col)
        infos == [i \in 1..Len(rows) |->
                     CrawlerInfo(RowAttr(rows[i], col), RowAttr(rows[i], "count"))]
    IN  IF \E i \in 1..Len(rows) : infos[i] = Null
        THEN [status |-> 500, data |-> <<>>]
        ELSE [status |-> 200, data |-> [i \in 1..Len(rows) |-> Val(infos[i])]]

list_crawlers(T) == list_by(T, "crawler_name")

list_sites(T) == list_by(T, "site_name")

(* A request makes its read in the body of its scope, once *)
ReadReady == scope.st = "open" /\ steps = 0

(* The read leaves the tables alone *)
Read(op, arg, out) ==
    /\ steps' = steps + 1
    /\ ret' = [op |-> op, arg |-> arg, ok |-> TRUE, out |-> Some(out), rep |-> FALSE]
    /\ UNCHANGED <<dialect, now, db, tx, scope, req, proc>>

ListPage ==
    /\ ReadReady
    /\ \E a \in QueryArgs(tx.articles) :
        Read("list_articles", a,
             list_articles(tx.articles, a.after, a.crawler, a.site, a.is_end,
                           a.include_deleted, a.limit, a.offset))

GetArticles ==
    /\ ReadReady
    /\ \E a \in QueryArgs(tx.articles) :
        Read("GET /api/v1/articles", a,
             route_list_articles(tx.articles, a.after, a.crawler, a.site, a.is_end,
                                 a.include_deleted, a.limit, a.offset))

GetArticle ==
    /\ ReadReady
    /\ \E id \in PrimaryKeys(tx.articles) :
        Read("GET /api/v1/articles/{article_id}", id, get_article(tx.articles, id))

GetRssFeed ==
    /\ ReadReady
    /\ \E a \in FeedArgs :
        Read("GET /feed/rss.xml", a, get_rss_feed(tx.articles, a.crawler, a.site, a.limit))

GetAtomFeed ==
    /\ ReadReady
    /\ \E a \in FeedArgs :
        Read("GET /feed/atom.xml", a, get_atom_feed(tx.articles, a.crawler, a.site, a.limit))

ListCrawlers ==
    /\ ReadReady
    /\ Read("GET /crawlers", Null, list_crawlers(tx.articles))

ListSites ==
    /\ ReadReady
    /\ Read("GET /crawlers/sites", Null, list_sites(tx.articles))

InitRead ==
    /\ dialect = "sqlite"
    /\ now = T0
    /\ \E T \in ReadTables : db = Tables(T, {}, {})
    /\ tx = db
    /\ scope = ClosedScope
    /\ ret = [op |-> "none", arg |-> Null, ok |-> TRUE, out |-> Null, rep |-> FALSE]
    /\ steps = 0
    /\ req = IdleRequest
    /\ proc = NoProcess

NextRead ==
    \/ Enter
    \/ ListPage
    \/ GetArticles
    \/ GetArticle
    \/ GetRssFeed
    \/ GetAtomFeed
    \/ ListCrawlers
    \/ ListSites
    \/ ExitCommit

SpecRead == InitRead /\ [][NextRead]_vars

----------------------------------------------------------------------------
(* The engine's callers *)

CanConstruct == Len(proc.engines) < MaxEngines

Frame == UNCHANGED <<dialect, now, db, tx, scope, ret, steps, req>>

(* lifespan, startup: get_engine() *)
Startup ==
    /\ proc.app = "stopped"
    /\ proc.closing = Null
    /\ proc.engine # Null \/ CanConstruct
    /\ proc' = [get_engine(proc) EXCEPT !.app = "running"]
    /\ Frame

GetEngine ==
    /\ proc.engine # Null \/ CanConstruct
    /\ proc' = get_engine(proc)
    /\ Frame

(* close_db() is called, by the lifespan's shutdown or by another caller,
   while no other close_db is in progress *)
CloseDb ==
    /\ proc.closing = Null
    /\ proc' = [close_db_dispose(proc) EXCEPT !.app = "stopped"]
    /\ Frame

(* dispose() has completed and close_db resumes *)
CloseDbResume ==
    /\ proc.closing # Null
    /\ proc' = close_db_clear(proc)
    /\ Frame

(* async with get_async_session(engine): with an engine some caller holds,
   or with none *)
GetAsyncSession ==
    /\ scope.st = "closed"
    /\ \E engine \in {Null} \cup {Some(i) : i \in DOMAIN proc.engines} :
          /\ engine # Null \/ CanConstruct
          /\ proc' = get_async_session(proc, engine)
    /\ scope' = [ClosedScope EXCEPT !.st = "open"]
    /\ tx' = db
    /\ UNCHANGED <<dialect, now, db, ret, steps, req>>

(* get_db_session: async with get_async_session(get_engine()) *)
GetDbSession ==
    /\ scope.st = "closed"
    /\ proc.engine # Null \/ CanConstruct
    /\ proc' = get_async_session(get_engine(proc), get_engine(proc).got)
    /\ scope' = [ClosedScope EXCEPT !.st = "open"]
    /\ tx' = db
    /\ UNCHANGED <<dialect, now, db, ret, steps, req>>

InitEngine ==
    /\ dialect \in {"sqlite", "mysql"}
    /\ now = T0
    /\ db = Tables(SeedTwo, {}, {})
    /\ tx = db
    /\ scope = ClosedScope
    /\ ret = [op |-> "none", arg |-> Null, ok |-> TRUE, out |-> Null, rep |-> FALSE]
    /\ steps = 0
    /\ req = IdleRequest
    /\ proc = NoProcess

NextEngine ==
    \/ Startup
    \/ GetEngine
    \/ CloseDb
    \/ CloseDbResume
    \/ GetAsyncSession
    \/ GetDbSession
    \/ ExitCommit

SpecEngine == InitEngine /\ [][NextEngine]_vars

----------------------------------------------------------------------------
(* The migration c1a2b3d4e5f6: articles.id from INT to ULID *)

(* A datetime: the whole milliseconds since the epoch and the microseconds
   within the millisecond *)
Datetime(ms, us) == [ms |-> ms, us |-> us]

DatetimeLess(a, b) == a.ms < b.ms \/ (a.ms = b.ms /\ a.us < b.us)

(* str(ULID.from_datetime(value)): the timestamp in whole milliseconds and
   fresh randomness *)
from_datetime(value, rnd) == UlidStr(value.ms, rnd)

(* The identifier the upgrade gives a row *)
new_ulid(created_at, t, rnd) ==
    IF created_at # Null THEN from_datetime(Val(created_at), rnd) ELSE generate_ulid(t, rnd)

(* ALTER TABLE on MySQL/MariaDB: every row keeps its columns, id is replaced
   by new_id *)
upgrade_mysql(T, t, rnds) ==
    [ok |-> TRUE, rows |-> {[r EXCEPT !.id = new_ulid(r.created_at, t, rnds[r.id])] : r \in T}]

(* The table rebuilt on SQLite: every row is inserted into articles_new,
   whose created_at is NOT NULL; ok = FALSE is the IntegrityError of the
   INSERT, raised before articles is dropped *)
upgrade_sqlite(T, t, rnds) ==
    IF \E r \in T : r.created_at = Null \/ r.updated_at = Null \/ ViolatesNotNull(r)
    THEN [ok |-> FALSE, rows |-> T]
    ELSE [ok |-> TRUE, rows |-> {[r EXCEPT !.id = new_ulid(r.created_at, t, rnds[r.id])] : r \in T}]

upgrade(T, d, t, rnds) ==
    IF d \in {"mysql", "mariadb"} THEN upgrade_mysql(T, t, rnds) ELSE upgrade_sqlite(T, t, rnds)

(* Rows of the table before the migration, with their auto-increment ids *)
LegacyStock ==
    <<FieldMap("ca", 1, "full1"), FieldMap("cb", 1, "full2"), FieldMap("ca", 2, "full2")>>

(* created_at of a row before the migration: absent, or a datetime; two of
   the datetimes fall in one millisecond, two lie either side of a carry of
   the timestamp digits *)
LegacyCreatedAts ==
    {Null, Some(Datetime(T0, 0)), Some(Datetime(T0, 500)), Some(Datetime(T0 + 1, 0))}

LegacyRow(i, created_at, deleted) ==
    [InsertValues(LegacyStock[i], i, T0) EXCEPT
        !.created_at = created_at,
        !.updated_at = Some(Datetime(T0 + 1, 0)),
        !.deleted_at = IF deleted THEN Some(Datetime(T0 + 1, 0)) ELSE Null]

LegacyTables ==
    {{LegacyRow(i, c[i], i = 2) : i \in S} :
        S \in SUBSET (1..Len(LegacyStock)), c \in [1..Len(LegacyStock) -> LegacyCreatedAts]}

(* The randomness of the identifiers: one draw per row, no two alike *)
Draws(T) ==
    {f \in [{r.id : r \in T} -> 0..(Len(LegacyStock) - 1)] :
        \A a, b \in DOMAIN f : f[a] = f[b] => a = b}

(* alembic upgrade: the whole of upgrade() *)
Upgrade ==
    /\ scope.st = "closed"
    /\ ret.op = "none"
    /\ \E rnds \in Draws(db.articles) :
          LET res == upgrade(db.articles, dialect, now, rnds)
          IN  /\ db' = [db EXCEPT !.articles = res.rows]
              /\ tx' = db'
              /\ ret' = [op |-> "upgrade", arg |-> db.articles, ok |-> res.ok,
                         out |-> Null, rep |-> FALSE]
    /\ steps' = steps + 1
    /\ UNCHANGED <<dialect, now, scope, req, proc>>

InitMigration ==
    /\ dialect \in {"sqlite", "mysql"}
    /\ now = T0 + 1
    /\ \E T \in LegacyTables : db = Tables(T, {}, {})
    /\ tx = db
    /\ scope = ClosedScope
    /\ ret = [op |-> "none", arg |-> Null, ok |-> TRUE, out |-> Null, rep |-> FALSE]
    /\ steps = 0
    /\ req = IdleRequest
    /\ proc = NoProcess

NextMigration == Upgrade

SpecMigration == InitMigration /\ [][NextMigration]_vars

----------------------------------------------------------------------------
(* Callers of SettingsRepository *)

(* Values a stored setting may hold: the true tokens in several cases,
   other words, the empty string, a padded token *)
SettingSamples ==
    {<<"t", "r", "u", "e">>, <<"T", "R", "U", "E">>, <<"T", "r", "u", "e">>, <<"1">>,
     <<"y", "e", "s">>, <<"Y", "e", "S">>, <<"o", "n">>, <<"O", "N">>,
     <<"f", "a", "l", "s", "e">>, <<"F", "a", "l", "s", "e">>, <<"0">>, <<"n", "o">>,
     <<"o", "f", "f">>, <<>>, <<" ", "t", "r", "u", "e">>, <<"2">>, <<"t">>}

SettingKeys == {GUEST_ACCESS_ENABLED, "maintenance"}

(* Values a stored number may hold, each with the integer Python's int()
   reads from it, Null where int() raises ValueError *)
IntSamples ==
    {[text |-> <<"3", "0">>, value |-> Some(30)],
     [text |-> <<"0">>, value |-> Some(0)],
     [text |-> <<" ", "4", "2", "\n">>, value |-> Some(42)],
     [text |-> <<"-", "5">>, value |-> Some(0 - 5)],
     [text |-> <<"+", "7">>, value |-> Some(7)],
     [text |-> <<"1", "_", "0">>, value |-> Some(10)],
     [text |-> <<"0", "0", "7">>, value |-> Some(7)],
     [text |-> <<"n", "o", "t", "-", "a", "-", "n", "u", "m", "b", "e", "r">>, value |-> Null],
     [text |-> <<>>, value |-> Null],
     [text |-> <<" ">>, value |-> Null],
     [text |-> <<"3", ".", "5">>, value |-> Null],
     [text |-> <<"1", "_", "_", "0">>, value |-> Null],
     [text |-> <<"_", "1">>, value |-> Null],
     [text |-> <<"-", " ", "5">>, value |-> Null],
     [text |-> <<"-">>, value |-> Null],
     [text |-> <<"o", "n">>, value |-> Null],
     [text |-> <<"o", "f", "f">>, value |-> Null]}

IntKeys == {GUEST_RATE_LIMIT_PER_MINUTE, "maintenance"}

IntDefaults == {0, DefaultGuestLimit}

(* The settings table: each key absent, or stored with one of the values;
   the second key holds few of them *)
SettingsTables ==
    {{[key |-> GUEST_ACCESS_ENABLED, value |-> v] : v \in V} \cup
     {[key |-> "maintenance", value |-> w] : w \in W} \cup
     {[key |-> GUEST_RATE_LIMIT_PER_MINUTE, value |-> n.text] : n \in N} :
        V \in {{}} \cup {{v} : v \in SettingSamples},
        W \in {{}, {<<"o", "n">>}, {<<"o", "f", "f">>}},
        N \in {{}} \cup {{n} : n \in IntSamples}}

(* A caller reads a flag with its default *)
GetBool ==
    /\ steps = 0
    /\ \E key \in SettingKeys, default \in BOOLEAN :
          ret' = [op |-> "get_bool", arg |-> [key |-> key, default |-> default], ok |-> TRUE,
                  out |-> Some(get_bool(tx.settings, key, default)), rep |-> FALSE]
    /\ steps' = steps + 1
    /\ UNCHANGED <<dialect, now, db, tx, scope, req, proc>>

(* A caller reads a number with its default *)
GetInt ==
    /\ steps = 0
    /\ \E key \in IntKeys, default \in IntDefaults :
          ret' = [op |-> "get_int", arg |-> [key |-> key, default |-> default], ok |-> TRUE,
                  out |-> Some(get_int(tx.settings, key, default)), rep |-> FALSE]
    /\ steps' = steps + 1
    /\ UNCHANGED <<dialect, now, db, tx, scope, req, proc>>

InitSettings ==
    /\ dialect = "sqlite"
    /\ now = T0
    /\ \E S \in SettingsTables : db = Tables({}, {}, S)
    /\ tx = db
    /\ scope = ClosedScope
    /\ ret = [op |-> "none", arg |-> Null, ok |-> TRUE, out |-> Null, rep |-> FALSE]
    /\ steps = 0
    /\ req = IdleRequest
    /\ proc = NoProcess

NextSettings == GetBool \/ GetInt

SpecSettings == InitSettings /\ [][NextSettings]_vars

----------------------------------------------------------------------------
(* Configuration: config.yaml, the environment, the defaults *)

(* Python values as yaml.safe_load and os.getenv give them *)
PyNone == [t |-> "none"]
PyStr(s) == [t |-> "str", v |-> s]
PyBool(b) == [t |-> "bool", v |-> b]
PyDict(d) == [t |-> "dict", v |-> d]

EmptyDict == PyDict(<<>>)

(* bool(x), the test of `if x` and of `x or y` *)
truthy(x) ==
    CASE x.t = "none" -> FALSE
      [] x.t = "str" -> x.v # ""
      [] x.t = "bool" -> x.v
      [] x.t = "dict" -> DOMAIN x.v # {}

(* d.get(key, default) of a dict *)
dict_get(d, key, default) == IF key \in DOMAIN d.v THEN d.v[key] ELSE default

Returned(value) == [ok |-> TRUE, value |-> value]
Raised(error) == [ok |-> FALSE, value |-> error]

DEFAULT_DATABASE_URL == "sqlite+aiosqlite:///./hotdeal.db"

(* _load_config: the cached configuration, or else the document of the
   file (yaml.safe_load(f) or {}), or {} when there is no file; the result
   is cached *)
_load_config(P, file) ==
    IF P.config # Null THEN P
    ELSE IF file.exists
    THEN [P EXCEPT !.config = Some(IF truthy(file.doc) THEN file.doc ELSE EmptyDict)]
    ELSE [P EXCEPT !.config = Some(EmptyDict)]

(* config.get(section, {}): AttributeError when config is no dict *)
Section(config, name) ==
    IF config.t # "dict" THEN Raised("AttributeError")
    ELSE Returned(dict_get(config, name, EmptyDict))

(* The characters of the values DATABASE_ECHO holds in the model *)
Chars(word) ==
    CASE word = "true" -> <<"t", "r", "u", "e">>
      [] word = "True" -> <<"T", "r", "u", "e">>
      [] word = "1" -> <<"1">>
      [] word = "" -> <<>>

(* os.getenv(name, default), env being the variable's value or Null *)
getenv(env, default) == IF env = Null THEN default ELSE PyStr(Val(env))

get_database_url(config, env) ==
    LET db_config == Section(config, "database")
    IN  IF ~db_config.ok THEN db_config
        ELSE IF db_config.value.t # "dict" THEN Raised("AttributeError")
        ELSE IF truthy(dict_get(db_config.value, "url", PyNone))
        THEN Returned(dict_get(db_config.value, "url", PyNone))
        ELSE Returned(getenv(env, PyStr(DEFAULT_DATABASE_URL)))

(* `"echo" in db_config` raises TypeError when db_config is None *)
get_database_echo(config, env) ==
    LET db_config == Section(config, "database")
    IN  IF ~db_config.ok THEN db_config
        ELSE IF db_config.value.t # "dict" THEN Raised("TypeError")
        ELSE IF "echo" \in DOMAIN db_config.value.v
        THEN Returned(PyBool(truthy(db_config.value.v["echo"])))
        ELSE Returned(PyBool(lower(Chars(getenv(env, PyStr("")).v)) = Chars("true")))

get_timezone(config, env) ==
    LET app_config == Section(config, "app")
    IN  IF ~app_config.ok THEN app_config
        ELSE IF app_config.value.t # "dict" THEN Raised("AttributeError")
        ELSE IF truthy(dict_get(app_config.value, "timezone", PyNone))
        THEN Returned(dict_get(app_config.value, "timezone", PyNone))
        ELSE Returned(getenv(env, PyStr("UTC")))

(* The database section of a config.yaml: a mapping with url and echo given
   or not, or the bare key `database:` *)
DatabaseSections ==
    {PyNone} \cup
    {PyDict(u @@ e) :
        u \in {<<>>, [url |-> PyStr("mysql+aiomysql://db/hotdeal")], [url |-> PyStr("")]},
        e \in {<<>>, [echo |-> PyBool(TRUE)], [echo |-> PyBool(FALSE)]}}

AppSections ==
    {PyDict(<<>>), PyDict([timezone |-> PyStr("Asia/Seoul")]), PyDict([timezone |-> PyNone])}

(* The documents of config.yaml: the empty file, and mappings with each
   section given or not *)
ConfigDocs ==
    {PyNone} \cup
    {PyDict(d @@ a) :
        d \in {<<>>} \cup {[database |-> x] : x \in DatabaseSections},
        a \in {<<>>} \cup {[app |-> x] : x \in AppSections}}

ConfigFiles ==
    {[exists |-> FALSE, doc |-> PyNone]} \cup {[exists |-> TRUE, doc |-> d] : d \in ConfigDocs}

(* A resolver is called: it loads the configuration, from the file on the
   first call of the process, and answers from it and from the environment *)
Resolve(name, file, env, loaded, res) ==
    /\ proc' = loaded
    /\ ret' = [op |-> name, arg |-> [file |-> file, env |-> env, first |-> proc.config = Null],
               ok |-> res.ok, out |-> Some(res.value), rep |-> FALSE]
    /\ steps' = steps + 1
    /\ UNCHANGED <<dialect, now, db, tx, scope, req>>

GetDatabaseUrl ==
    /\ steps < MaxSteps
    /\ \E file \in ConfigFiles, env \in {Null, Some("postgresql+asyncpg://db/hotdeal"), Some("")} :
           LET loaded == _load_config(proc, file)
           IN  Resolve("get_database_url", file, env, loaded,
                       get_database_url(Val(loaded.config), env))

GetDatabaseEcho ==
    /\ steps < MaxSteps
    /\ \E file \in ConfigFiles,
          env \in {Null, Some("true"), Some("True"), Some("1"), Some("")} :
           LET loaded == _load_config(proc, file)
           IN  Resolve("get_database_echo", file, env, loaded,
                       get_database_echo(Val(loaded.config), env))

GetTimezone ==
    /\ steps < MaxSteps
    /\ \E file \in ConfigFiles, env \in {Null, Some("Europe/Paris")} :
           LET loaded == _load_config(proc, file)
           IN  Resolve("get_timezone", file, env, loaded,
                       get_timezone(Val(loaded.config), env))

InitConfig ==
    /\ dialect = "sqlite"
    /\ now = T0
    /\ db = Tables({}, {}, {})
    /\ tx = db
    /\ scope = ClosedScope
    /\ ret = [op |-> "none", arg |-> Null, ok |-> TRUE, out |-> Null, rep |-> FALSE]
    /\ steps = 0
    /\ req = IdleRequest
    /\ proc = NoProcess

NextConfig == GetDatabaseUrl \/ GetDatabaseEcho \/ GetTimezone

SpecConfig == InitConfig /\ [][NextConfig]_vars

----------------------------------------------------------------------------
(* Sequential callers of check_and_increment: one identity, a constant
   limit, each call in a session of its own that commits *)

RateLimits == {0, 1, 2}

(* The seconds between a call and the one before it *)
Gaps == {0, 1, 30, 60}

(* The minutes passed to cleanup_old_records *)
CleanupMinutes == {1, 2}

(* The record of another identity, from a request half a minute ago *)
Bystander(repo) ==
    IF repo = "guest"
    THEN [ip_address |-> "ip2", request_count |-> 1, window_start |-> T0 - Window \div 2]
    ELSE [api_key_id |-> 2, request_count |-> 1, window_start |-> T0 - Window \div 2]

(* What the calls of a behaviour have in common, and what is remembered of
   them: the times of the admitted calls of the last Window seconds, the
   number admitted since the record's window_start, the window_start the
   record had at the last denied call, the table as the same calls leave it
   without any cleanup, and whether a cleanup has deleted the identity's
   record *)
RateHistory(repo, limit) ==
    [repo |-> repo, limit |-> limit, admitted |-> <<>>, inwin |-> 0, denied |-> Null,
     shadow |-> {Bystander(repo)}, cleaned |-> FALSE]

(* The table of the repository named *)
RateTable(T, repo) == IF repo = "guest" THEN T.guest_rate_limits ELSE T.api_key_rate_limits

WithRateTable(T, repo, rows) ==
    IF repo = "guest" THEN [T EXCEPT !.guest_rate_limits = rows]
    ELSE [T EXCEPT !.api_key_rate_limits = rows]

(* The records of the identity that calls *)
RateRows(T, repo) ==
    IF repo = "guest" THEN {g \in T.guest_rate_limits : g.ip_address = "ip1"}
    ELSE {a \in T.api_key_rate_limits : a.api_key_id = 1}

(* cleanup_old_records with a cutoff counted in half minutes *)
cleanup_old_records_half_minutes(rows, older_than_minutes, t) ==
    LET cutoff == t - older_than_minutes * 30
        old_records == {r \in rows : r.window_start < cutoff}
    IN  [rows |-> rows \ old_records, out |-> Some(Cardinality(old_records))]

(* cleanup_old_records of either repository, on its table *)
cleanup_old_records(rows, older_than_minutes, t) ==
    LET cutoff == t - older_than_minutes * 60
        old_records == {r \in rows : r.window_start < cutoff}
    IN  [rows |-> rows \ old_records, out |-> Some(Cardinality(old_records))]

(* check_and_increment of the repository named *)
check_and_increment(T, repo, limit, t) ==
    IF repo = "guest"
    THEN guest_check_and_increment(T.guest_rate_limits, "ip1", limit, t)
    ELSE api_key_check_and_increment(T.api_key_rate_limits, 1, limit, t)

(* The times of s that lie in the Window seconds up to t *)
Recent(s, t) == SelectSeq(s, LAMBDA x : t - x <= Window)

CheckAndIncrement ==
    /\ steps < MaxCalls
    /\ scope.st = "closed"
    /\ \E d \in Gaps :
          LET t == now + d
              h == db.history
              old == RateRows(db, h.repo)
              res == check_and_increment(db, h.repo, h.limit, t)
              fresh == old = {} \/ TheRow(res.rows).window_start # TheRow(old).window_start
              T1 == WithRateTable(db, h.repo, res.rows)
              plain == check_and_increment(WithRateTable(db, h.repo, h.shadow),
                                           h.repo, h.limit, t)
          IN  /\ now' = t
              /\ db' = [T1 EXCEPT !.history =
                           [h EXCEPT
                               !.admitted = IF res.allowed
                                            THEN Append(Recent(@, t), t) ELSE @,
                               !.inwin = IF ~res.allowed THEN @ ELSE IF fresh THEN 1 ELSE @ + 1,
                               !.denied = IF res.allowed THEN @
                                          ELSE Some((CHOOSE r \in old : TRUE).window_start),
                               !.shadow = plain.rows]]
              /\ ret' = [op |-> "check_and_increment",
                         arg |-> [repo |-> h.repo, limit |-> h.limit],
                         ok |-> TRUE, out |-> Some(res.allowed), rep |-> FALSE]
    /\ tx' = db'
    /\ steps' = steps + 1
    /\ UNCHANGED <<dialect, scope, req, proc>>

(* A maintenance job calls cleanup_old_records between two requests, in a
   session of its own that commits *)
CleanupOldRecords ==
    /\ steps < MaxCalls
    /\ scope.st = "closed"
    /\ \E d \in Gaps : \E m \in CleanupMinutes :
          LET t == now + d
              h == db.history
              res == cleanup_old_records(RateTable(db, h.repo), m, t)
              T1 == WithRateTable(db, h.repo, res.rows)
          IN  /\ now' = t
              /\ db' = [T1 EXCEPT !.history.cleaned =
                           @ \/ (RateRows(db, h.repo) # {} /\ RateRows(T1, h.repo) = {})]
              /\ ret' = [op |-> "cleanup_old_records",
                         arg |-> [repo |-> h.repo, older_than_minutes |-> m],
                         ok |-> TRUE, out |-> res.out, rep |-> FALSE]
    /\ tx' = db'
    /\ steps' = steps + 1
    /\ UNCHANGED <<dialect, scope, req, proc>>

InitRate ==
    /\ dialect = "sqlite"
    /\ now = T0
    /\ \E repo \in {"guest", "key"}, limit \in RateLimits :
          db = [WithRateTable(Tables({}, {}, {}), repo, {Bystander(repo)})
                   EXCEPT !.history = RateHistory(repo, limit)]
    /\ tx = db
    /\ scope = ClosedScope
    /\ ret = [op |-> "none", arg |-> Null, ok |-> TRUE, out |-> Null, rep |-> FALSE]
    /\ steps = 0
    /\ req = IdleRequest
    /\ proc = NoProcess

NextRate == CheckAndIncrement \/ CleanupOldRecords

SpecRate == InitRate /\ [][NextRate]_vars

----------------------------------------------------------------------------
(* Concurrent callers of GuestRateLimitRepository.check_and_increment: each
   request has a session of its own (get_db_session), reads the record,
   decides on what it read, and writes what it changed when it flushes; the
   writes of one session reach the others when it commits, and the database
   lets one session write at a time *)

MaxSessions == 2    \* requests in flight for the one identity

Sessions == 1..MaxSessions

RaceIp == "ip1"

(* The seconds between a select and the one before it: none, or enough for
   the window to expire *)
RaceGaps == {0, Window + 1}

IdleSession == [pc |-> "idle", seen |-> {}, t |-> 0, out |-> Null]

(* The flush of a session that read seen and holds local: a new record is
   inserted, and fails on the primary key if another session inserted it;
   of a record that was read, the attributes whose value the session
   changed are written in an UPDATE by primary key, with the values the
   session computed *)
flush_in_sql(G, seen, local) ==
    LET there == {g \in G : g.ip_address = RaceIp}
        old == TheRow(seen)
        new == TheRow(local)
    IN  IF seen = {}
        THEN IF there # {} THEN [ok |-> FALSE, rows |-> G]
                           ELSE [ok |-> TRUE, rows |-> G \cup local]
        ELSE [ok |-> TRUE,
              rows |-> (G \ there) \cup
                  {[g EXCEPT !.request_count =
                                 IF new.request_count # old.request_count
                                 THEN @ + (new.request_count - old.request_count) ELSE @,
                             !.window_start =
                                 IF new.window_start # old.window_start
                                 THEN new.window_start ELSE @] : g \in there}]

flush(G, seen, local) ==
    LET there == {g \in G : g.ip_address = RaceIp}
        old == TheRow(seen)
        new == TheRow(local)
    IN  IF seen = {}
        THEN IF there # {} THEN [ok |-> FALSE, rows |-> G]
                           ELSE [ok |-> TRUE, rows |-> G \cup local]
        ELSE [ok |-> TRUE,
              rows |-> (G \ there) \cup
                  {[g EXCEPT !.request_count =
                                 IF new.request_count # old.request_count
                                 THEN new.request_count ELSE @,
                             !.window_start =
                                 IF new.window_start # old.window_start
                                 THEN new.window_start ELSE @] : g \in there}]

(* The select of check_and_increment and its datetime.now() *)
SessionRead(s) ==
    /\ steps < MaxCalls
    /\ req[s].pc = "idle"
    /\ \E d \in RaceGaps :
          /\ now' = now + d
          /\ req' = [req EXCEPT ![s] =
                        [pc |-> "read",
                         seen |-> {g \in db.guest_rate_limits : g.ip_address = RaceIp},
                         t |-> now + d, out |-> Null]]
    /\ steps' = steps + 1
    /\ UNCHANGED <<dialect, db, tx, scope, ret, proc>>

(* The rest of check_and_increment, on what the session read, and the
   commit of its session *)
SessionWrite(s) ==
    /\ req[s].pc = "read"
    /\ LET h == db.history
           res == guest_check_and_increment(req[s].seen, RaceIp, h.limit, req[s].t)
           done == flush(db.guest_rate_limits, req[s].seen, res.rows)
           admitted == done.ok /\ res.allowed
       IN  /\ db' = [db EXCEPT !.guest_rate_limits = done.rows,
                               !.history.admitted =
                                   IF admitted THEN Append(@, req[s].t) ELSE @]
           /\ req' = [req EXCEPT ![s] =
                         [pc |-> "idle", seen |-> {}, t |-> 0,
                          out |-> IF done.ok THEN Some(res.allowed) ELSE Some("IntegrityError")]]
           /\ ret' = [op |-> "check_and_increment",
                      arg |-> [repo |-> "guest", limit |-> h.limit],
                      ok |-> done.ok, out |-> Some(admitted), rep |-> FALSE]
    /\ tx' = db'
    /\ UNCHANGED <<dialect, now, scope, steps, proc>>

InitRace ==
    /\ dialect = "sqlite"
    /\ now = T0
    /\ \E limit \in RateLimits :
          db = [Tables({}, {}, {}) EXCEPT !.history = RateHistory("guest", limit)]
    /\ tx = db
    /\ scope = ClosedScope
    /\ ret = [op |-> "none", arg |-> Null, ok |-> TRUE, out |-> Null, rep |-> FALSE]
    /\ steps = 0
    /\ req = [s \in Sessions |-> IdleSession]
    /\ proc = NoProcess

NextRace == \E s \in Sessions : SessionRead(s) \/ SessionWrite(s)

SpecRace == InitRace /\ [][NextRace]_vars

----------------------------------------------------------------------------
(* One session and the entities its caller keeps.  The session's identity
   map holds one instance for a primary key as long as the caller refers to
   it; a query that finds the row of an instance it holds returns that
   instance, and fills from the row only the attributes that are expired *)

(* An instance with the attributes of row r, those in E expired *)
Instance(r, E) == [row |-> r, expired |-> E]

OpenSession(I) ==
    [st |-> "open", commits |-> 0, rollbacks |-> 0, released |-> 0, error |-> Null,
     identity |-> I]

(* The instances of the identity map other than that of primary key id *)
Others(I, id) == {e \in I : e.row.id # id}

(* The attributes a flush leaves expired: those the database computes
   (func.now()), unless the INSERT fetched them with RETURNING *)
ServerSide == {"created_at", "updated_at"}

(* result.scalar_one() of the select by natural key, which found row r *)
scalar_one(I, r) ==
    LET held == {e \in I : e.row.id = r.id}
        e == CHOOSE x \in held : TRUE
    IN  IF held = {} THEN r
        ELSE [e.row EXCEPT
                 !.created_at = IF "created_at" \in e.expired THEN r.created_at ELSE @,
                 !.updated_at = IF "updated_at" \in e.expired THEN r.updated_at ELSE @]

(* The end of a call that returned the instance of row r, which the caller
   keeps or not *)
Returns(op, arg, res, entity, I) ==
    /\ steps' = steps + 1
    /\ ret' = [op |-> op, arg |-> arg, ok |-> res.ok,
               out |-> IF res.ok THEN Some(entity) ELSE Null, rep |-> FALSE]
    /\ tx' = [tx EXCEPT !.articles = res.rows]
    /\ scope' = IF res.ok THEN OpenSession(I)
                ELSE [OpenSession(I) EXCEPT !.st = "raised", !.error = Some("IntegrityError")]
    /\ UNCHANGED <<dialect, now, db, req, proc>>

(* article = await repo.create(data) *)
KeepCreate ==
    /\ InBody
    /\ \E data \in FieldMaps : \E id \in FreshIds(tx.articles, now) :
       \E keep \in BOOLEAN : \E E \in {{}, ServerSide} :
          LET res == create(tx.articles, data, id, now)
          IN  Returns("create", data, res, IF res.ok THEN Val(res.out) ELSE Null,
                        IF res.ok /\ keep
                        THEN scope.identity \cup {Instance(Val(res.out), E)}
                        ELSE scope.identity)

(* await repo.soft_delete(id): an instance the caller holds is the one that
   is marked; its updated_at is expired by the flush *)
KeepSoftDelete ==
    /\ InBody
    /\ \E id \in PrimaryKeys(tx.articles) :
          LET res == soft_delete(tx.articles, id, now)
              I == scope.identity
          IN  Returns("soft_delete", id, res, Val(res.out),
                        Others(I, id) \cup
                        {Instance([e.row EXCEPT !.deleted_at = Some(now)],
                                  e.expired \cup {"updated_at"}) : e \in I \ Others(I, id)})

(* article = await repo.upsert(data) *)
KeepUpsert ==
    /\ InBody
    /\ \E data \in FieldMaps : \E id \in FreshIds(tx.articles, now) : \E keep \in BOOLEAN :
          LET res == upsert(tx.articles, data, id, now, dialect)
              I == scope.identity
              entity == scalar_one(I, Val(res.out))
          IN  Returns("upsert", data, res, IF res.ok THEN entity ELSE Null,
                        IF ~res.ok THEN I
                        ELSE IF keep \/ I # Others(I, entity.id)
                        THEN Others(I, entity.id) \cup {Instance(entity, {})}
                        ELSE I)

InitIdentity ==
    /\ dialect \in {"sqlite", "mysql"}
    /\ now = T0
    /\ \E T \in SeedTables : db = Tables(T, {}, {})
    /\ tx = db
    /\ scope = OpenSession({})
    /\ ret = [op |-> "none", arg |-> Null, ok |-> TRUE, out |-> Null, rep |-> FALSE]
    /\ steps = 0
    /\ req = IdleRequest
    /\ proc = NoProcess

NextIdentity == KeepCreate \/ KeepSoftDelete \/ KeepUpsert \/ Tick

SpecIdentity == InitIdentity /\ [][NextIdentity]_vars

----------------------------------------------------------------------------
(* A client that polls GET /api/v1/articles with after set to the greatest
   id it has received, a fixed limit and offset 0, while crawlers insert
   articles and the cleanup soft-deletes them *)

MaxWrites == 2      \* articles inserted or soft-deleted while the client polls

PollLimits == {1, 2}

PollKeys == Crawlers \X ArticleIds

(* The greatest of the ids received so far *)
GreatestId(cursor, ids) ==
    LET all == {ids[i] : i \in 1..Len(ids)} \cup (IF cursor = Null THEN {} ELSE {Val(cursor)})
    IN  IF all = {} THEN Null
        ELSE Some(CHOOSE x \in all : \A y \in all \ {x} : StrLess(y, x))

(* What the client holds: its limit, its cursor, and the ids it received in
   the order it received them.  When the model starts it has received the
   articles of the table that are not soft deleted *)
PollClient(T, limit) ==
    LET got == list_articles(T, Null, Null, Null, Null, FALSE, Cardinality(T), 0).articles
        ids == [i \in 1..Len(got) |-> got[i].id]
    IN  [limit |-> limit, cursor |-> GreatestId(Null, ids), received |-> ids]

(* A crawler's create of an article that is not in the table, committed *)
PollInsert ==
    /\ steps < MaxWrites
    /\ \E d \in {0, 1} : \E k \in PollKeys : \E id \in FreshIds(db.articles, now + d) :
          LET res == create(db.articles, FieldMap(k[1], k[2], "full1"), id, now + d)
          IN  /\ res.ok
              /\ now' = now + d
              /\ db' = [db EXCEPT !.articles = res.rows]
    /\ tx' = db'
    /\ steps' = steps + 1
    /\ UNCHANGED <<dialect, scope, ret, req, proc>>

(* soft_delete of an article, committed *)
PollSoftDelete ==
    /\ steps < MaxWrites
    /\ \E r \in db.articles :
          /\ r.deleted_at = Null
          /\ db' = [db EXCEPT !.articles = soft_delete(db.articles, r.id, now).rows]
    /\ tx' = db'
    /\ steps' = steps + 1
    /\ UNCHANGED <<dialect, now, scope, ret, req, proc>>

(* The query parameters of the client's request *)
PollArgs(c) ==
    [after |-> c.cursor, crawler |-> Null, site |-> Null, is_end |-> Null,
     include_deleted |-> FALSE, limit |-> c.limit, offset |-> 0]

(* One poll: the request, and the client taking the page *)
Poll ==
    /\ scope.st = "closed"
    /\ \E a \in {PollArgs(req)} :
       \E res \in {route_list_articles(db.articles, a.after, a.crawler, a.site, a.is_end,
                                       a.include_deleted, a.limit, a.offset)} :
       \E ids \in {[i \in 1..Len(res.data) |-> res.data[i].id]} :
          /\ req' = [req EXCEPT !.received = @ \o ids,
                                !.cursor = GreatestId(@, ids)]
          /\ ret' = [op |-> "GET /api/v1/articles", arg |-> a, ok |-> TRUE,
                     out |-> Some(res), rep |-> FALSE]
    /\ UNCHANGED <<dialect, now, db, tx, scope, steps, proc>>

InitPoll ==
    /\ dialect = "sqlite"
    /\ now = T0
    /\ \E T \in SeedTables : \E limit \in PollLimits :
          /\ db = Tables(T, {}, {})
          /\ req = PollClient(T, limit)
    /\ tx = db
    /\ scope = ClosedScope
    /\ ret = [op |-> "none", arg |-> Null, ok |-> TRUE, out |-> Null, rep |-> FALSE]
    /\ steps = 0
    /\ proc = NoProcess

NextPoll == PollInsert \/ PollSoftDelete \/ Poll

(* The client keeps polling *)
SpecPoll == InitPoll /\ [][NextPoll]_vars /\ WF_vars(Poll)

----------------------------------------------------------------------------
(* Properties of ArticleRepository and of the scoped session *)

(* A step that is a repository call *)
IsCall == steps' = steps + 1

Range(s) == {s[i] : i \in 1..Len(s)}

KeyRows(T, data) == RowsByKey(T, data.crawler_name, data.article_id)

(* The row holds the values of the field map in every column upsert writes *)
HoldsValues(r, data) == \A c \in UpdatedCols : r[c] = Get(data, c)

(* What the second of two identical upserts leaves: one row for the key,
   with the id of the first call's row, the given values, and updated_at at
   the time of the second call *)
SecondUpsertOutcome ==
    /\ ret'.ok
    /\ \E r \in tx'.articles :
          /\ KeyRows(tx'.articles, ret'.arg) = {r}
          /\ ret'.out = Some(r)
          /\ ret.ok => r.id = Val(ret.out).id
          /\ r.updated_at = Some(now')

UpsertAgain == IsCall /\ ret'.op = "upsert" /\ ret'.rep

(* C1 as stated: for every field map containing crawler_name and article_id,
   upsert applied twice with the same map leaves exactly one row for the
   natural key, the second call keeping the row's id and setting updated_at
   to the time of the second call *)
C1_AnyFieldMap == [][UpsertAgain => SecondUpsertOutcome]_vars

(* C1, amended: for every field map that gives, besides crawler_name and
   article_id, a value for each of title, category, site_name, board_name,
   writer_name, url, is_end and extra, upsert applied twice with the same
   map leaves exactly one row for the natural key; the second call keeps
   the row's id and created_at, writes the given values and sets updated_at
   to the time of the second call *)
C1_UpsertTwice ==
    [][(UpsertAgain /\ IsComplete(ret'.arg)) =>
          /\ ret.ok
          /\ SecondUpsertOutcome
          /\ Val(ret'.out).created_at = Val(ret.out).created_at
          /\ HoldsValues(Val(ret'.out), ret'.arg)]_vars

(* A second identical upsert of a complete field map has returned, at a
   later time than the row was created *)
C1_Witness ==
    /\ ret.op = "upsert" /\ ret.rep /\ ret.ok /\ IsComplete(ret.arg)
    /\ Val(ret.out).created_at # Val(ret.out).updated_at

----------------------------------------------------------------------------
(* The default listing: list_articles() with no filter, include_deleted
   false and the default page *)
DefaultLimit == 50

DefaultListing(T) == list_articles(T, Null, Null, Null, Null, FALSE, DefaultLimit, 0)

(* The listings with include_deleted = false whose filters the row passes *)
ListedUnderItsFilters(T, r) ==
    \A crawler \in {Null, Some(r.crawler_name)}, site \in {Null, r.site_name},
       is_end \in {Null, r.is_end} :
       r \in Range(list_articles(T, Null, crawler, site, is_end, FALSE, DefaultLimit, 0).articles)

(* A successful upsert leaves the row of its natural key with deleted_at
   null and listed *)
UpsertRestores ==
    (IsCall /\ ret'.op = "upsert" /\ ret'.ok) =>
        /\ KeyRows(tx'.articles, ret'.arg) # {}
        /\ \A r \in KeyRows(tx'.articles, ret'.arg) :
              /\ r.deleted_at = Null
              /\ r \in Range(DefaultListing(tx'.articles).articles)
              /\ ListedUnderItsFilters(tx'.articles, r)

(* The step is a soft delete aimed at row r *)
SoftDeletes(r) ==
    /\ IsCall
    /\ \/ ret'.op = "soft_delete" /\ ret'.arg = r.id
       \/ ret'.op = "soft_delete_by_crawler" /\ ret'.arg = <<r.crawler_name, r.article_id>>

(* The step ends the transaction without a commit, which restores the
   committed rows *)
Discards == scope.st # "closed" /\ tx' = db /\ db' = db

(* A row with deleted_at null keeps it null, unless a soft delete is aimed
   at it or the transaction is discarded *)
StaysRestored ==
    \A r \in tx.articles :
        (r.deleted_at = Null /\ scope.st = "open") =>
            \A q \in RowsByKey(tx'.articles, r.crawler_name, r.article_id) :
                q.deleted_at # Null => (SoftDeletes(r) \/ Discards)

(* C2: whenever the last operation on a natural key is an upsert, the row
   has deleted_at null and is returned by list_articles with
   include_deleted = false; a soft delete followed by an upsert of the same
   key makes the row visible again *)
C2_UpsertUndeletes == [][UpsertRestores /\ StaysRestored]_vars

(* An upsert has returned for a row that is committed as soft-deleted, and
   the row is now not deleted *)
C2_Witness ==
    /\ ret.op = "upsert" /\ ret.ok /\ scope.st = "open"
    /\ \E r \in KeyRows(db.articles, ret.arg) : r.deleted_at # Null
    /\ \E r \in KeyRows(tx.articles, ret.arg) : r.deleted_at = Null

----------------------------------------------------------------------------
UniqueNaturalKey(T) ==
    \A r, q \in T : SameKey(r, q.crawler_name, q.article_id) => r = q

(* A create whose natural key is already in the table fails and adds no row *)
DuplicateCreateFails ==
    (IsCall /\ ret'.op = "create" /\ KeyRows(tx.articles, ret'.arg) # {}) =>
        /\ ~ret'.ok
        /\ {r.id : r \in tx'.articles} \subseteq {r.id : r \in tx.articles}

(* C3: no two rows of articles share (crawler_name, article_id), in the
   transaction and in the committed table, after any sequence of create,
   upsert, bulk_upsert, soft_delete and soft_delete_by_crawler; a create
   that would duplicate a pair fails and adds no row *)
C3_NaturalKeyUnique ==
    /\ [](UniqueNaturalKey(tx.articles) /\ UniqueNaturalKey(db.articles))
    /\ [][DuplicateCreateFails]_vars

(* A create of a complete field map has failed: its natural key was taken *)
C3_Witness ==
    /\ ret.op = "create" /\ ~ret.ok /\ IsComplete(ret.arg)
    /\ KeyRows(db.articles, ret.arg) # {}

----------------------------------------------------------------------------
(* The scope closes in this step *)
Closes == scope.st # "closed" /\ scope'.st = "closed"

(* C9: if the body completes without error the transaction is committed
   exactly once; if an error is raised in the body nothing written in the
   scope is persisted and the same error propagates; in both cases the
   session is released when the scope exits *)
C9_ScopedSession ==
    [][Closes =>
          /\ scope'.released = 1
          /\ (scope.st = "open" /\ scope'.error = Null) =>
                (scope'.commits = 1 /\ scope'.rollbacks = 0 /\ db' = tx)
          /\ scope.st = "raised" =>
                (scope'.commits = 0 /\ scope'.rollbacks = 1 /\ db' = db /\ tx' = db
                 /\ scope'.error = scope.error /\ scope'.error # Null)
          /\ scope'.error # Null => (scope'.commits = 0 /\ db' = db /\ tx' = db)]_vars

(* A scope has closed on an error after one of its calls had written a row,
   and the row is not in the committed table *)
C9_Witness ==
    /\ scope.st = "closed" /\ scope.error # Null /\ scope.rollbacks = 1
    /\ ret.op = "upsert" /\ ret.ok /\ Val(ret.out) \notin db.articles

----------------------------------------------------------------------------
(* The rows that pass the filters of a listing other than the cursor *)
PassesOtherFilters(r, a) ==
    /\ a.crawler # Null => r.crawler_name = Val(a.crawler)
    /\ a.site # Null => r.site_name = a.site
    /\ a.is_end # Null => r.is_end = a.is_end
    /\ ~a.include_deleted => r.deleted_at = Null

(* id is greater than the cursor c: it differs from c and is not below it *)
Beyond(id, c) == id # c /\ ~StrLess(id, c)

(* The rows of the table were created at pairwise different times *)
CreatedAtDifferentTimes(T) == \A r, q \in T : r.created_at = q.created_at => r = q

AfterCursor ==
    (IsCall /\ ret'.op = "list_articles" /\ ret'.arg.after # Null) =>
        LET a == ret'.arg
            c == Val(a.after)
            T == tx'.articles
            res == Val(ret'.out)
        IN  /\ \A r \in Range(res.articles) : r.id # c /\ StrLess(c, r.id) /\ r \in T
            /\ res.total = Cardinality({r \in T : PassesOtherFilters(r, a) /\ Beyond(r.id, c)})
            /\ CreatedAtDifferentTimes(T) =>
                  \A n \in T : n.id = c =>
                      /\ \A r \in Range(res.articles) : Val(r.created_at) > Val(n.created_at)
                      /\ res.total = Cardinality({r \in T : /\ PassesOtherFilters(r, a)
                                                            /\ Val(r.created_at) > Val(n.created_at)})

(* C10: list_articles with after = c returns only rows whose id is strictly
   greater than c, never the row with id = c, and its total counts only such
   rows; when the articles were created at increasing times these are the
   articles created after the article whose id is c *)
C10_AfterCursor == [][AfterCursor]_vars

(* A listing with after = the id of a row has returned a later row, and has
   left out the row itself and an earlier one *)
C10_Witness ==
    /\ ret.op = "list_articles" /\ ret.arg.after # Null
    /\ Val(ret.out).total > 0 /\ Len(Val(ret.out).articles) > 0
    /\ CreatedAtDifferentTimes(tx.articles)
    /\ \E n, e \in tx.articles :
          /\ n.id = Val(ret.arg.after)
          /\ StrLess(e.id, n.id)
          /\ PassesOtherFilters(n, ret.arg) /\ PassesOtherFilters(e, ret.arg)

----------------------------------------------------------------------------
(* Properties of the rate limiters and of verify_api_key_or_guest *)

(* A step in which the dependency runs for the request in flight *)
Verifies == req.pc = "auth" /\ req'.pc # "auth"

CallNames(trace) == [i \in 1..Len(trace) |-> trace[i].call]

(* The outcome of one check_and_increment call with limit L at the current
   time, on the identity whose record was old and is new, and whose
   history, this call included, is h *)
WindowRule(old, new, h, L, allowed) ==
    /\ new # {}
    /\ old = {} =>
          /\ allowed
          /\ TheRow(new).request_count = 1
          /\ TheRow(new).window_start = now
    /\ (old # {} /\ now - TheRow(old).window_start <= 60) =>
          /\ allowed <=> h.calls <= L
          /\ TheRow(new).window_start = TheRow(old).window_start
          /\ TheRow(new).request_count = Min(h.calls, L)
    /\ (old # {} /\ now - TheRow(old).window_start > 60) =>
          /\ allowed
          /\ TheRow(new).request_count = 1
          /\ TheRow(new).window_start = now

GuestCounted ==
    /\ Verifies
    /\ Len(req'.trace) = 3
    /\ req'.trace[3].call = "GuestRateLimitRepository.check_and_increment"
    /\ req'.trace[3].arg[2] >= 1

KeyCounted ==
    /\ Verifies
    /\ Len(req'.trace) >= 2
    /\ req'.trace[2].call = "ApiKeyRateLimitRepository.check_and_increment"
    /\ req'.trace[2].arg[2] >= 1

RateWindow ==
    /\ GuestCounted =>
          LET ip == req'.trace[3].arg[1]
          IN  /\ WindowRule(GuestRow(tx, ip), GuestRow(tx', ip), tx'.history.guest[ip],
                            req'.trace[3].arg[2], req'.status = 0)
              /\ req'.status \in {0, 429}
    /\ KeyCounted =>
          LET id == req'.trace[2].arg[1]
          IN  /\ WindowRule(KeyRow(tx, id), KeyRow(tx', id), tx'.history.key[id],
                            req'.trace[2].arg[2], req'.status = 0)
              /\ req'.status \in {0, 429}

(* C4: of the sequential check_and_increment calls of one identity with a
   constant limit L >= 1, guest by IP or API key by id, the first creates
   the record with count 1 and is allowed; in a window exactly the first L
   calls are allowed and every further call made while now - window_start
   <= 60 s is denied, the request failing with 429; the first call made
   with now - window_start > 60 s is allowed and resets request_count to 1
   and window_start to now. *)
C4_RateWindow == [][RateWindow]_vars

(* A guest is denied at call L + 1 of the second window of its address *)
C4_Witness ==
    /\ req.pc = "done"
    /\ req.status = 429
    /\ \E g \in tx.guest_rate_limits :
          /\ tx.history.guest[g.ip_address].windows = 2
          /\ tx.history.guest[g.ip_address].calls = g.request_count + 1
          /\ now - g.window_start <= 60

(* The request supplies a key that no active ApiKey row holds *)
NoActiveRow == \A k \in tx.api_keys : ~(k.key = Val(req.x_api_key) /\ k.is_active)

RejectedAsInvalid ==
    /\ req'.pc = "done"
    /\ req'.status = 401
    /\ req'.detail.text = "Invalid API key"
    /\ CallNames(req'.trace) = <<"ApiKeyRepository.get_by_key">>
    /\ tx' = tx

(* Every request that supplies an X-Api-Key value, whatever string it is,
   which matches no active ApiKey row is rejected with 401 "Invalid API
   key" and reaches no rate-limit check and no update_last_used *)
C5_AnySuppliedValue ==
    [][(Verifies /\ req.x_api_key # Null /\ NoActiveRow) => RejectedAsInvalid]_vars

(* C5: every request that supplies a non-empty X-Api-Key value which
   matches no ApiKey row with is_active = true is rejected with 401
   "Invalid API key", whether or not guest access is enabled, and reaches
   neither check_and_increment nor update_last_used: its only call is the
   key lookup and it leaves every table as it was. *)
C5_InvalidKeyRejected ==
    [][(Verifies /\ req.x_api_key # Null /\ Val(req.x_api_key) # "" /\ NoActiveRow)
          => RejectedAsInvalid]_vars

(* A revoked key is rejected while guests are admitted and counters exist *)
C5_Witness ==
    /\ req.pc = "done"
    /\ req.status = 401
    /\ req.x_api_key = Some("key-b")
    /\ \A s \in tx.settings : s.key = GUEST_ACCESS_ENABLED => s.value = <<"T", "r", "u", "e">>
    /\ tx.guest_rate_limits # {}
    /\ tx.api_key_rate_limits # {}

ActiveRows == {k \in tx.api_keys : req.x_api_key = Some(k.key) /\ k.is_active}

(* The key's counter refuses a call made now *)
CounterDenies(k) ==
    \E a \in tx.api_key_rate_limits :
        /\ a.api_key_id = k.id
        /\ now - a.window_start <= 60
        /\ a.request_count >= k.rate_limit_per_minute

KeyPath(k) ==
    /\ Len(req'.trace) >= 2
    /\ req'.trace[1] = Called("ApiKeyRepository.get_by_key", <<k.key>>)
    /\ req'.trace[2] = Called("ApiKeyRateLimitRepository.check_and_increment",
                              <<k.id, k.rate_limit_per_minute>>)
    /\ \A a \in tx.api_key_rate_limits : a.api_key_id # k.id => a \in tx'.api_key_rate_limits
    /\ IF CounterDenies(k)
       THEN /\ Len(req'.trace) = 2
            /\ req'.pc = "done"
            /\ req'.status = 429
            /\ req'.detail.limit = Some(k.rate_limit_per_minute)
            /\ tx'.api_keys = tx.api_keys
       ELSE /\ Len(req'.trace) = 3
            /\ req'.trace[3] = Called("ApiKeyRepository.update_last_used", <<k.key>>)
            /\ req'.pc = "handler"
            /\ req'.identity = Some(k.key)
            /\ tx'.api_keys = (tx.api_keys \ {k}) \cup {[k EXCEPT !.last_used_at = Some(now)]}
            /\ KeyRow(tx', k.id) # KeyRow(tx, k.id)
    /\ tx'.guest_rate_limits = tx.guest_rate_limits
    /\ tx'.settings = tx.settings
    /\ tx'.history.guest = tx.history.guest

(* C6: for a request with a valid, active API key the dependency calls, in
   this order, the key lookup, check_and_increment on that key's own
   counter with the key's rate_limit_per_minute, and then update_last_used.
   If the counter denies, the request fails with 429 and last_used_at is
   unchanged; if it admits, last_used_at is the current time and the key
   string is the caller's identity.  The guest settings and the
   guest_rate_limits table are neither consulted nor modified. *)
C6_KeyPath == [][Verifies => \A k \in ActiveRows : KeyPath(k)]_vars

(* A key used earlier is refused now and keeps its earlier last_used_at *)
C6_Witness ==
    /\ req.pc = "done"
    /\ req.status = 429
    /\ \E k \in tx.api_keys :
          /\ req.x_api_key = Some(k.key)
          /\ k.last_used_at # Null
          /\ Val(k.last_used_at) < now

StoredValues(key) == {s.value : s \in {x \in tx.settings : x.key = key}}

GuestRefused ==
    /\ req'.pc = "done"
    /\ req'.status = 401
    /\ req'.detail.text = "API key required. Guest access is disabled."
    /\ tx'.guest_rate_limits = tx.guest_rate_limits

GuestPath ==
    /\ StoredValues("guest_access_enabled") = {<<"f", "a", "l", "s", "e">>} => GuestRefused
    /\ StoredValues("guest_access_enabled") = {} =>
          /\ req'.status \in {0, 429}
          /\ Len(req'.trace) = 3
          /\ req'.trace[3].call = "GuestRateLimitRepository.check_and_increment"
    /\ (StoredValues("guest_rate_limit_per_minute") = {} /\ Len(req'.trace) = 3) =>
          req'.trace[3].arg[2] = 30

(* C7: whenever the stored guest_access_enabled is "false", every request
   without an API key is rejected with 401 "API key required. Guest access
   is disabled.", whatever the record of its address in guest_rate_limits,
   and leaves that table unchanged; when the setting is absent guests are
   admitted to the rate limiter, and when the guest limit is absent the
   limit is 30 per minute. *)
C7_GuestAccess == [][(Verifies /\ req.x_api_key = Null) => GuestPath]_vars

(* A guest whose address has used up its limit is told that guest access
   is disabled *)
C7_Witness ==
    /\ req.pc = "done"
    /\ req.status = 401
    /\ req.x_api_key = Null
    /\ req.detail.text = "API key required. Guest access is disabled."
    /\ \E g \in tx.guest_rate_limits :
          /\ req.client = Some(g.ip_address)
          /\ g.request_count >= 1
          /\ now - g.window_start <= 60
          /\ StoredValues("guest_rate_limit_per_minute") = {<<"1">>}

HandlerBehindDependency ==
    /\ (req'.queries > req.queries /\ req.route \in
            {"/api/v1/articles", "/api/v1/articles/{article_id}", "/api/v1/crawlers",
             "/api/v1/crawlers/sites", "/feed/rss.xml", "/feed/atom.xml"})
          => (req.auth = "passed" /\ req.status = 0 /\ req.trace # <<>>)
    /\ req'.status \in {401, 429} => req'.queries = 0
    /\ req'.route \in {"/health", "/"} =>
          /\ req'.trace = <<>>
          /\ req'.auth = "none"
          /\ req'.status \notin {401, 429}
          /\ req'.queries = 0

(* C8: on each of the six business routes the handler's query runs only
   after verify_api_key_or_guest has returned successfully for the same
   request; a request whose dependency ends in 401 or 429 runs no handler
   query.  GET /health and GET / never run the dependency and never
   answer 401 or 429. *)
C8_HandlerBehindDependency == [][HandlerBehindDependency]_vars

(* A feed's handler has answered a caller the dependency had admitted *)
C8_Witness ==
    /\ req.pc = "done"
    /\ req.route = "/feed/atom.xml"
    /\ req.auth = "passed"
    /\ req.queries = 1
    /\ req.status = 200

----------------------------------------------------------------------------
(* Properties of the reads *)

(* The row passes every filter the caller supplied *)
Satisfies(r, a) ==
    /\ a.after = Null \/ StrLess(Val(a.after), r.id)
    /\ a.crawler = Null \/ r.crawler_name = Val(a.crawler)
    /\ a.site = Null \/ r.site_name = a.site
    /\ a.is_end = Null \/ r.is_end = a.is_end
    /\ a.include_deleted \/ r.deleted_at = Null

Matching(T, a) == {r \in T : Satisfies(r, a)}

(* The number of matching rows that sort before r, newest first *)
Rank(T, a, r) == Cardinality({o \in Matching(T, a) : StrLess(r.id, o.id)})

Reads(op) == IsCall /\ ret'.op = op

(* The matching rows that lie beyond a page of n rows *)
BeyondPage(T, a, n) == {r \in Matching(T, a) : Rank(T, a, r) >= a.offset + n}

HasMore ==
    LET a == ret'.arg
        meta == Val(ret'.out).meta
        data == Val(ret'.out).data
    IN  /\ a.limit \in 1..100 /\ a.offset >= 0
        /\ meta.total = Cardinality(Matching(tx.articles, a))
        /\ meta.has_more <=> BeyondPage(tx.articles, a, Len(data)) # {}
        /\ meta.has_more <=> a.offset + a.limit < meta.total
        /\ a.offset >= meta.total => (data = <<>> /\ ~meta.has_more)
        /\ Len(data) <= a.limit

(* C11: for GET /articles with a limit in 1..100 and an offset >= 0 over a
   fixed table, has_more is true exactly when a matching row lies beyond
   the returned page, that is exactly when offset + limit < total; an
   offset at or beyond total gives an empty page and has_more false. *)
C11_HasMore == [][Reads("GET /api/v1/articles") => HasMore]_vars

(* A page from the middle of the listing, with rows before and after it *)
C11_Witness ==
    /\ ret.op = "GET /api/v1/articles"
    /\ Val(ret.out).meta.has_more
    /\ ret.arg.offset = 1
    /\ Len(Val(ret.out).data) = 2
    /\ Val(ret.out).meta.total = 4

PageIsSlice ==
    LET a == ret'.arg
        page == Val(ret'.out).articles
        n == Cardinality(Matching(tx.articles, a))
    IN  /\ Len(page) = (IF n <= a.offset THEN 0 ELSE Min(a.limit, n - a.offset))
        /\ \A i \in 1..Len(page) :
              /\ page[i] \in Matching(tx.articles, a)
              /\ Rank(tx.articles, a, page[i]) = a.offset + i - 1
        /\ \A i, j \in 1..Len(page) : page[i] = page[j] => i = j
        /\ Len(page) <= a.limit

(* C12: for every combination of after, crawler, site, is_end,
   include_deleted, limit and offset, the page list_articles returns is the
   slice [offset, offset + limit) of the rows that satisfy all supplied
   filters (and are not soft deleted unless include_deleted), sorted by id
   descending: no row violates a filter, none is returned twice, and the
   page has at most limit rows. *)
C12_PageIsSlice == [][Reads("list_articles") => PageIsSlice]_vars

(* A second page of one crawler's listing, over a table that also holds
   another crawler's rows, one of them soft deleted *)
C12_Witness ==
    /\ ret.op = "list_articles"
    /\ ret.arg.offset = 1
    /\ ret.arg.crawler # Null
    /\ ~ret.arg.include_deleted
    /\ Len(Val(ret.out).articles) = 1
    /\ \E r \in tx.articles : r.deleted_at # Null /\ r.crawler_name # Val(ret.arg.crawler)
    /\ \E r \in tx.articles : r.deleted_at = Null /\ r.crawler_name # Val(ret.arg.crawler)

TotalCountsMatching ==
    LET a == ret'.arg
        total == Val(ret'.out).total
    IN  /\ total = Cardinality(Matching(tx.articles, a))
        /\ \A p \in QueryPages :
              list_articles(tx.articles, a.after, a.crawler, a.site, a.is_end,
                            a.include_deleted, p.limit, p.offset).total = total

(* C13: the total list_articles returns is the number of rows that match
   the filters of the page query (after, crawler, site, is_end, soft-delete
   exclusion), and does not depend on limit or offset. *)
C13_TotalCountsMatching == [][Reads("list_articles") => TotalCountsMatching]_vars

(* A total larger than the page, under a cursor and with a deleted row
   left out *)
C13_Witness ==
    /\ ret.op = "list_articles"
    /\ ret.arg.after # Null
    /\ ~ret.arg.include_deleted
    /\ Val(ret.out).total = 2
    /\ Len(Val(ret.out).articles) = 1
    /\ \E r \in tx.articles : r.deleted_at # Null /\ StrLess(Val(ret.arg.after), r.id)

----------------------------------------------------------------------------
(* Properties of the engines *)

(* The engines get_engine has constructed and close_db has not disposed *)
Undisposed ==
    {i \in DOMAIN proc.engines :
        proc.engines[i].via = "get_engine" /\ ~proc.engines[i].disposed}

Constructs(via) ==
    proc'.engines = Append(proc.engines, [via |-> via, disposed |-> FALSE])

EngineStep ==
    \* the cached reference is set by a constructing get_engine, and cleared
    \* by the close_db that has disposed it
    /\ proc'.engine # proc.engine =>
          \/ /\ proc.engine = Null
             /\ Constructs("get_engine")
             /\ proc'.engine = Some(Len(proc'.engines))
          \/ /\ proc'.engine = Null
             /\ proc.closing = proc.engine
             /\ proc.engines[Val(proc.engine)].disposed
             /\ proc'.engines = proc.engines
    \* get_engine returns the cached engine, which it constructs only when
    \* none is cached (a step that ends a close_db, or that leaves the
    \* process alone, is no call of get_engine)
    /\ (proc' # proc /\ proc'.last = "get_engine" /\ proc'.closing = proc.closing) =>
          /\ proc'.got = proc'.engine
          /\ proc'.got # Null
          /\ proc.engine # Null => (proc'.engine = proc.engine /\ proc'.engines = proc.engines)
    \* close_db disposes the cached engine
    /\ (proc.closing = Null /\ proc'.closing # Null) =>
          /\ proc'.closing = proc.engine
          /\ proc'.engines[Val(proc.engine)].disposed
          /\ Len(proc'.engines) = Len(proc.engines)
    \* close_db with no engine cached does nothing
    /\ (proc'.last = "close_db" /\ proc.closing = Null /\ proc'.closing = Null) =>
          /\ proc.engine = Null /\ proc'.engine = Null
          /\ proc'.engines = proc.engines

(* C14: across every sequence of get_engine and close_db calls, startup
   and shutdown included, the get_engine calls between two consecutive
   close_db calls return the same engine, constructed only by the first of
   them; close_db disposes that engine and clears the cached reference, so
   that the next get_engine constructs a fresh one; close_db with no
   cached engine does nothing; at most one engine obtained through
   get_engine is undisposed at any time. *)
C14_EngineLifecycle == [](Cardinality(Undisposed) <= 1) /\ [][EngineStep]_vars

(* The application has been started a second time: the first engine is
   disposed and get_engine has returned the second *)
C14_Witness ==
    /\ Len(proc.engines) = 2
    /\ proc.engines[1].disposed
    /\ proc.engines[2].via = "get_engine"
    /\ proc.engine = Some(2)
    /\ proc.got = Some(2)
    /\ proc.app = "running"

(* C15: get_async_session called without an engine binds its session to
   the process-wide engine, the one get_engine returns, so that no engine
   other than the process-wide one is ever created by it. *)
C15_ProcessWideEngine ==
    /\ \A i \in DOMAIN proc.engines : proc.engines[i].via = "get_engine"
    /\ proc.last = "get_async_session()" => (proc.engine # Null /\ proc.bound = proc.engine)

----------------------------------------------------------------------------
(* The ULID migration *)

Upgraded == ret.op = "upgrade"

(* The row of the migrated table that carries the natural key of r *)
Migrated(r) == {n \in db.articles : SameKey(n, r.crawler_name, r.article_id)}

(* C16: after the upgrade on either dialect, of any two rows with distinct
   created_at values the one created earlier has the lexically smaller
   new id *)
C16_OrderPreserved ==
    (Upgraded /\ ret.ok) =>
        \A a, b \in ret.arg :
            (a.created_at # Null /\ b.created_at # Null
             /\ DatetimeLess(Val(a.created_at), Val(b.created_at))) =>
                \A x \in Migrated(a), y \in Migrated(b) : StrLess(x.id, y.id)

(* C17: the upgrade completes on either dialect and keeps every row: the
   same number of rows, each with its other columns unchanged and with a
   new 26-character id, no two ids equal, and a row without created_at gets
   an id of the current time *)
C17_RowsPreserved ==
    Upgraded =>
        /\ ret.ok
        /\ Cardinality(db.articles) = Cardinality(ret.arg)
        /\ \A r \in ret.arg :
              /\ Cardinality(Migrated(r)) = 1
              /\ \A n \in Migrated(r) :
                    /\ \A c \in DOMAIN r \ {"id"} : n[c] = r[c]
                    /\ Len(n.id) = UlidTimeLen + UlidRandLen
                    /\ r.created_at = Null =>
                          SubSeq(n.id, 1, UlidTimeLen) = Encode(now, UlidTimeLen)
        /\ \A m, n \in db.articles : m.id = n.id => m = n

----------------------------------------------------------------------------
(* Properties of the feeds *)

ReadsFeed == Reads("GET /feed/rss.xml") \/ Reads("GET /feed/atom.xml")

(* The articles a feed is about: active, not soft deleted, of the crawler
   and of the site asked for *)
Current(T, a) ==
    {r \in T :
        /\ r.is_end = Some(FALSE)
        /\ r.deleted_at = Null
        /\ a.crawler = Null \/ r.crawler_name = Val(a.crawler)
        /\ a.site = Null \/ r.site_name = a.site}

(* The number of current articles newer than r *)
Newer(T, a, r) == Cardinality({o \in Current(T, a) : StrLess(r.id, o.id)})

EntriesOf(feed) == {feed.entries[i] : i \in 1..Len(feed.entries)}

FeedOfCurrent ==
    LET a == ret'.arg
        feed == Val(ret'.out)
        T == tx.articles
        n == Cardinality(Current(T, a))
        shown == {r \in Current(T, a) : Newer(T, a, r) < Min(a.limit, n)}
    IN  /\ Len(feed.entries) = Min(a.limit, n)
        /\ Cardinality(EntriesOf(feed)) = Len(feed.entries)
        /\ \A r \in shown :
              \E e \in EntriesOf(feed) : e.id = r.id /\ e.title = r.title /\ e.link = r.url
        /\ \A e \in EntriesOf(feed) : \E r \in shown : e.id = r.id
        /\ \A r \in T : (r.is_end # Some(FALSE) \/ r.deleted_at # Null) =>
              \A e \in EntriesOf(feed) : e.id # r.id
        /\ \A x, y \in T :
              (T = {x, y} /\ x.is_end = Some(FALSE) /\ x.deleted_at = Null
               /\ y.is_end = Some(TRUE) /\ a.crawler = Null /\ a.site = Null) =>
                  /\ Len(feed.entries) = 1
                  /\ feed.entries[1].id = x.id
                  /\ feed.entries[1].title = x.title
                  /\ feed.entries[1].link = x.url

(* C18: for GET /feed/rss.xml and GET /feed/atom.xml with any crawler, site
   and limit, the feed has one entry for each of the newest min(limit, n)
   articles that are active, not soft deleted and match the filters, and
   none for an ended or soft-deleted article; with one active and one ended
   article it has one entry, the active article's, with its title and URL *)
C18_FeedOfCurrent == [][ReadsFeed => FeedOfCurrent]_vars

(* A feed of one entry over an active and an ended article *)
C18_Witness ==
    /\ ret.op \in {"GET /feed/rss.xml", "GET /feed/atom.xml"}
    /\ Len(Val(ret.out).entries) = 1
    /\ Cardinality(tx.articles) = 2
    /\ \E x, y \in tx.articles :
          /\ x.is_end = Some(FALSE) /\ y.is_end = Some(TRUE)
          /\ x.deleted_at = Null /\ y.deleted_at = Null
          /\ Val(ret.out).entries[1].id = x.id

----------------------------------------------------------------------------
(* Properties of the crawler and site listings *)

Live(T) == {r \in T : r.deleted_at = Null}

(* The listing over column col: one entry per name that a live article has,
   with the number of its live articles, in ascending order of name, the
   counts adding up to the total of the default article listing *)
RECURSIVE SumCounts(_)
SumCounts(data) ==
    IF data = <<>> THEN 0 ELSE Head(data).article_count + SumCounts(Tail(data))

GroupedBy(col) ==
    LET T == tx.articles
        out == Val(ret.out)
        names == {ColumnOf(r, col) : r \in Live(T)}
    IN  /\ out.status = 200
        /\ Len(out.data) = Cardinality(names)
        /\ \A n \in names : \E i \in 1..Len(out.data) :
              /\ out.data[i].name = n
              /\ out.data[i].article_count =
                    Cardinality({r \in Live(T) : ColumnOf(r, col) = n})
        /\ \A i, j \in 1..Len(out.data) :
              i < j => NameLess(out.data[i].name, out.data[j].name)
        /\ SumCounts(out.data) =
              list_articles(T, Null, Null, Null, Null, FALSE, DefaultLimit, 0).total

(* C19: GET /crawlers returns one entry per crawler_name that has a
   non-deleted article, with the number of its non-deleted articles, sorted
   by name; a crawler with only soft-deleted articles is left out, and the
   counts add up to the total of list_articles with default filters.  GET
   /crawlers/sites does the same over site_name. *)
C19_Grouped ==
    /\ ret.op = "GET /crawlers" => GroupedBy("crawler_name")
    /\ ret.op = "GET /crawlers/sites" => GroupedBy("site_name")

----------------------------------------------------------------------------
(* Properties of SettingsRepository *)

SameLetter(a, b) ==
    \/ a = b
    \/ \E i \in DOMAIN UpperLetters : {a, b} = {UpperLetters[i], LowerLetters[i]}

(* The value is one of the tokens true, 1, yes, on, in any case *)
IsTrueToken(v) ==
    \E w \in TruthyWords : Len(v) = Len(w) /\ \A i \in 1..Len(w) : SameLetter(v[i], w[i])

Stored(key) == {s.value : s \in {x \in tx.settings : x.key = key}}

(* C20, as claimed: get_bool returns true for a stored true token and the
   caller's default for anything else, an absent key and a stored value
   that is no true token alike *)
C20_DefaultForOthers ==
    ret.op = "get_bool" =>
        LET stored == Stored(ret.arg.key)
        IN  Val(ret.out) =
                (IF \E v \in stored : IsTrueToken(v) THEN TRUE ELSE ret.arg.default)

(* C20: get_bool returns true for a stored true token, in any case, false
   for any other stored value, and the caller's default only when the key
   is absent *)
C20_StoredDecides ==
    ret.op = "get_bool" =>
        LET stored == Stored(ret.arg.key)
        IN  /\ (\E v \in stored : IsTrueToken(v)) => Val(ret.out) = TRUE
            /\ (\E v \in stored : ~IsTrueToken(v)) => Val(ret.out) = FALSE
            /\ stored = {} => Val(ret.out) = ret.arg.default

(* A stored "False" read with the default true gives false *)
C20_Witness ==
    /\ ret.op = "get_bool"
    /\ ret.arg.default = TRUE
    /\ Stored(ret.arg.key) = {<<"F", "a", "l", "s", "e">>}
    /\ Val(ret.out) = FALSE

(* The integer a stored text stands for, from the table of samples *)
IntOf(text) == (CHOOSE n \in IntSamples : n.text = text).value

IntRead ==
    LET stored == Stored(ret'.arg.key)
        parsed == {IntOf(v) : v \in stored} \ {Null}
    IN  /\ ret'.ok
        /\ \A n \in parsed : Val(ret'.out) = Val(n)
        /\ parsed = {} => Val(ret'.out) = ret'.arg.default
        /\ tx' = tx /\ db' = db

(* C21: get_int returns the stored value parsed as an integer when it
   parses, and the default, without raising, when the key is absent or the
   stored value does not parse; it never modifies the settings table *)
C21_IntOrDefault == [][Reads("get_int") => IntRead]_vars

(* "not-a-number" read with default 30 gives 30 *)
C21_Witness ==
    /\ ret.op = "get_int"
    /\ ret.arg.default = 30
    /\ Stored(ret.arg.key) = {<<"n", "o", "t", "-", "a", "-", "n", "u", "m", "b", "e", "r">>}
    /\ Val(ret.out) = 30
    /\ ret.ok

----------------------------------------------------------------------------
(* Properties of the configuration *)

Resolvers == {"get_database_url", "get_database_echo", "get_timezone"}

(* The configuration defines section.key *)
Defines(config, section, key) ==
    /\ config.t = "dict"
    /\ section \in DOMAIN config.v
    /\ config.v[section].t = "dict"
    /\ key \in DOMAIN config.v[section].v

(* File over environment over default *)
Preferred(config, section, key, fromEnv, default) ==
    IF Defines(config, section, key) THEN config.v[section].v[key]
    ELSE IF ret.arg.env # Null THEN fromEnv
    ELSE default

(* C22: each of the database URL, the echo flag and the timezone resolves
   to the config-file value when the file defines the key, otherwise to the
   environment value when set (DATABASE_ECHO being "true"), otherwise to
   the built-in default; a missing file is an empty configuration *)
C22_Precedence ==
    ret.op \in Resolvers =>
        LET config == Val(proc.config)
            env == ret.arg.env
        IN  /\ ret.ok
            /\ (ret.arg.first /\ ~ret.arg.file.exists) => config = EmptyDict
            /\ ret.op = "get_database_url" =>
                  Val(ret.out) = Preferred(config, "database", "url", PyStr(Val(env)),
                                           PyStr("sqlite+aiosqlite:///./hotdeal.db"))
            /\ ret.op = "get_database_echo" =>
                  Val(ret.out) = Preferred(config, "database", "echo",
                                           PyBool(lower(Chars(Val(env))) = Chars("true")),
                                           PyBool(FALSE))
            /\ ret.op = "get_timezone" =>
                  Val(ret.out) = Preferred(config, "app", "timezone", PyStr(Val(env)),
                                           PyStr("UTC"))

----------------------------------------------------------------------------
(* Properties of sequential check_and_increment calls *)

(* A step in which check_and_increment is called for the identity *)
Calls == steps' = steps + 1 /\ ret'.op = "check_and_increment"

Denies == Calls /\ ret'.out = Some(FALSE)

Admits == Calls /\ ret'.out = Some(TRUE)

(* The identity's record *)
RateRow(T) == TheRow(RateRows(T, T.history.repo))

(* A call made more than 60 seconds after the window_start of the record *)
Expired ==
    /\ Calls
    /\ RateRows(db, db.history.repo) # {}
    /\ now' - RateRow(db).window_start > Window

DenyLeaves ==
    /\ db'.guest_rate_limits = db.guest_rate_limits
    /\ db'.api_key_rate_limits = db.api_key_rate_limits
    /\ now' - RateRow(db).window_start <= Window
    /\ RateRow(db).request_count >= db.history.limit

Restarts ==
    /\ ret'.out = Some(TRUE)
    /\ RateRow(db').window_start = now'
    /\ RateRow(db').request_count = 1

(* C23: a call that denies leaves the identity's record as it was, with its
   request_count and its window_start, and a call made more than 60 seconds
   after the record's window_start is admitted and starts a window, however
   many calls were denied in between *)
C23_DenyFrame ==
    [][(Denies => DenyLeaves) /\ (Expired => Restarts)]_vars

(* A call is admitted 61 seconds after the window_start of a window in which
   a call was denied *)
C23_Witness ==
    /\ ret.op = "check_and_increment"
    /\ ret.out = Some(TRUE)
    /\ db.history.denied # Null
    /\ now = Val(db.history.denied) + Window + 1
    /\ RateRow(db).window_start = now

(* C24: with a limit of 1 or more, the calls admitted in any 60 seconds are
   at most twice the limit; the admitted calls of the 60 seconds up to the
   latest admission are the most any such interval holds *)
C24_BurstBound ==
    db.history.limit >= 1 => Len(db.history.admitted) <= 2 * db.history.limit

(* With limit 2, three calls admitted within 60 seconds, the first of them
   in the window before the record's *)
C24_Witness ==
    /\ ret.op = "check_and_increment"
    /\ db.history.limit = 2
    /\ Len(db.history.admitted) = 3
    /\ db.history.admitted[1] < RateRow(db).window_start
    /\ db.history.admitted[3] - db.history.admitted[1] <= Window

(* C26: for every limit of 0 or more, the calls admitted since the record's
   window_start are at most the limit, so that a limit of 0 admits none *)
C26_AtMostLimit == db.history.inwin <= db.history.limit

----------------------------------------------------------------------------
(* Properties of concurrent check_and_increment calls *)

(* The calls admitted with a time in the window of the record *)
InWindow ==
    LET log == db.history.admitted
        row == TheRow(db.guest_rate_limits)
    IN  IF db.guest_rate_limits = {} THEN 0
        ELSE Cardinality({i \in 1..Len(log) :
                 /\ row.window_start <= log[i]
                 /\ log[i] - row.window_start <= Window})

(* More calls admitted in the window than the limit allows *)
Raced == db.history.limit >= 1 /\ InWindow > db.history.limit

(* C25 as stated: when concurrent calls admit more than the limit, the
   stored counter exceeds the limit *)
C25_CounterExceeds ==
    Raced => TheRow(db.guest_rate_limits).request_count > db.history.limit

(* C25: concurrent calls are not serialised and can admit more calls in a
   window than the limit, but each writes the count it read plus one, so
   the stored request_count never exceeds the limit (1 for a limit of 0) *)
C25_CounterBounded ==
    \A g \in db.guest_rate_limits :
        /\ g.request_count >= 1
        /\ g.request_count <= db.history.limit \/ g.request_count = 1

(* Two calls that read the same record were both admitted, and the window
   holds more admitted calls than the limit *)
C25_Witness ==
    /\ Raced
    /\ ret.op = "check_and_increment"
    /\ ret.out = Some(TRUE)
    /\ \A s \in Sessions : req[s].out = Some(TRUE)
    /\ TheRow(db.guest_rate_limits).request_count <= db.history.limit

----------------------------------------------------------------------------
(* Properties of a request's transaction *)

(* The session scope of a request the dependency admitted exits *)
AdmittedEnds ==
    /\ req.pc = "done"
    /\ req.auth = "passed"
    /\ scope.st # "closed"
    /\ scope'.st = "closed"

(* C27: when a request that verify_api_key_or_guest admitted finishes, the
   rate-limit record and the last_used_at the dependency wrote are
   committed, whether the handler answered or raised *)
C27_AdmittedWritesCommitted ==
    [][AdmittedEnds =>
          /\ db'.guest_rate_limits = tx.guest_rate_limits
          /\ db'.api_key_rate_limits = tx.api_key_rate_limits
          /\ db'.api_keys = tx.api_keys]_vars

----------------------------------------------------------------------------
(* Properties of the public routes *)

(* The ids of the articles in the response of a public route, the listing
   with include_deleted = true left aside *)
Included ==
    LET out == Val(ret.out)
    IN  CASE ret.op = "GET /api/v1/articles" /\ ~ret.arg.include_deleted ->
                 {out.data[i].id : i \in 1..Len(out.data)}
          [] ret.op = "GET /api/v1/articles/{article_id}" /\ out.status = 200 ->
                 {Val(out.data).id}
          [] ret.op \in {"GET /feed/rss.xml", "GET /feed/atom.xml"} ->
                 {e.id : e \in EntriesOf(out)}
          [] OTHER -> {}

(* The articles the counts of a crawler or site response stand for *)
CountedTotal ==
    IF ret.op \in {"GET /crawlers", "GET /crawlers/sites"} /\ Val(ret.out).status = 200
    THEN SumCounts(Val(ret.out).data)
    ELSE 0

(* C28: no public response holds an article whose deleted_at is set, and no
   crawler or site count counts one *)
C28_DeletedHidden ==
    /\ \A r \in tx.articles : r.deleted_at # Null => r.id \notin Included
    /\ CountedTotal <= Cardinality(Live(tx.articles))

----------------------------------------------------------------------------
(* Properties of soft_delete and soft_delete_by_crawler *)

(* The rows the key of a soft delete call names *)
Aimed(T) ==
    IF ret'.op = "soft_delete" THEN {r \in T : r.id = ret'.arg}
    ELSE {r \in T : <<r.crawler_name, r.article_id>> = ret'.arg}

IsSoftDelete == IsCall /\ ret'.op \in {"soft_delete", "soft_delete_by_crawler"}

(* The row r as r2 with the fields in F left aside *)
SameBut(r, r2, F) == \A f \in DOMAIN r \ F : r2[f] = r[f]

(* The call marks the rows aimed at and leaves the fields outside F, and the
   other rows, as they were; without a row it returns false and changes
   nothing *)
Marks(F) ==
    LET found == Aimed(tx.articles)
    IN  /\ found = {} => (ret'.out = Some(FALSE) /\ tx' = tx)
        /\ found # {} =>
              /\ ret'.out = Some(TRUE)
              /\ Cardinality(tx'.articles) = Cardinality(tx.articles)
              /\ tx.articles \ found \subseteq tx'.articles
              /\ \A r \in found : \E r2 \in tx'.articles :
                    /\ r2.id = r.id
                    /\ r2.deleted_at = Some(now)
                    /\ SameBut(r, r2, F)
              /\ [tx' EXCEPT !.articles = {}] = [tx EXCEPT !.articles = {}]

(* C29 as stated: a soft delete changes no field of the row but deleted_at *)
C29_OnlyDeletedAt == [][IsSoftDelete => Marks({"deleted_at"})]_vars

(* C29: a soft delete removes no row; on the row of its key, deleted or not,
   it sets deleted_at to the current time, which as an UPDATE also refreshes
   updated_at, leaves every other field and row, and returns true; without
   such a row it returns false and changes nothing.  No repository call that
   succeeds makes the set of rows smaller. *)
C29_SoftDeleteFrame ==
    [][/\ IsSoftDelete =>
             /\ Marks({"deleted_at", "updated_at"})
             /\ \A r \in Aimed(tx'.articles) : r.updated_at = Some(now)
       /\ (IsCall /\ ret'.ok) =>
             {r.id : r \in tx.articles} \subseteq {r.id : r \in tx'.articles}]_vars

(* A row that was already soft deleted is soft deleted again, later *)
C29_Witness ==
    /\ ret.op \in {"soft_delete", "soft_delete_by_crawler"}
    /\ ret.out = Some(TRUE)
    /\ \E r \in tx.articles, o \in db.articles :
          /\ r.id = o.id
          /\ o.deleted_at # Null
          /\ r.deleted_at = Some(now)
          /\ r.deleted_at # o.deleted_at
          /\ r.updated_at # o.updated_at

----------------------------------------------------------------------------
(* Properties of the entity upsert returns *)

(* C30: the entity upsert returns is the persisted row as the write left
   it, with the given field values and deleted_at null, also when the
   session already held an instance of that row *)
C30_ReturnsPersisted ==
    (ret.op = "upsert" /\ ret.ok) =>
        /\ Val(ret.out) \in tx.articles
        /\ Val(ret.out).deleted_at = Null
        /\ \A f \in DOMAIN ret.arg \cap UpdatedCols : Val(ret.out)[f] = Some(ret.arg[f])

----------------------------------------------------------------------------
(* Properties of the two branches of upsert *)

(* The dialect of the other branch *)
OtherDialect == IF _is_mysql_session(dialect) THEN "sqlite" ELSE "mysql"

(* The outcome, on the same table and with the same generated id, of the
   branch the call did not take *)
OtherBranch ==
    LET id == IF ret'.ok THEN Val(ret'.out).id
              ELSE CHOOSE i \in FreshIds(tx.articles, now) : TRUE
    IN  upsert(tx.articles, ret'.arg, id, now, OtherDialect)

(* C31: from the same table and field map the MySQL/MariaDB branch and the
   SQLite branch of upsert succeed or fail alike and leave the same rows *)
C31_DialectsAgree ==
    [][Reads("upsert") =>
          /\ OtherBranch.ok = ret'.ok
          /\ OtherBranch.rows = tx'.articles]_vars

----------------------------------------------------------------------------
(* Properties of bulk_upsert *)

(* The table that upsert calls for the items of batch from item i on, one
   after the other, make of table T, when the row each call inserts gets
   the id that the row of its natural key has in table F; <<>> when one of
   the calls raises *)
RECURSIVE Sequenced(_, _, _, _)
Sequenced(T, batch, i, F) ==
    IF i > Len(batch) THEN Some(T)
    ELSE LET there == RowsByKey(F, batch[i].crawler_name, batch[i].article_id)
             u == upsert(T, batch[i], (CHOOSE r \in there : TRUE).id, now, dialect)
         IN  IF there # {} /\ u.ok THEN Sequenced(u.rows, batch, i + 1, F) ELSE Null

(* The last item of the batch with the natural key of item i *)
LastOf(batch, i) ==
    LET same == {j \in 1..Len(batch) :
                    SameKey(batch[j], batch[i].crawler_name, batch[i].article_id)}
    IN  batch[CHOOSE j \in same : \A k \in same : k <= j]

InBatch(batch, r) == \E i \in 1..Len(batch) : SameKey(batch[i], r.crawler_name, r.article_id)

BulkIsSequence ==
    LET batch == ret'.arg
        T == tx'.articles
    IN  /\ ret'.out = Some(Len(batch))
        /\ Some(T) = Sequenced(tx.articles, batch, 1, T)
        /\ batch = <<>> => (ret'.out = Some(0) /\ tx' = tx)
        /\ \A i \in 1..Len(batch) :
              LET rows == RowsByKey(T, batch[i].crawler_name, batch[i].article_id)
                  last == LastOf(batch, i)
              IN  /\ Cardinality(rows) = 1
                  /\ \A r \in rows :
                        /\ r.deleted_at = Null
                        /\ \A c \in DOMAIN last \cap UpdatedCols : r[c] = Some(last[c])
        /\ {r \in T : ~InBatch(batch, r)} = {r \in tx.articles : ~InBatch(batch, r)}

(* C32: a bulk_upsert that returns has returned the number of items of the
   batch, items of one natural key counted each, and has left the table as
   upsert of each item in list order leaves it: one row for a natural key,
   with the values of the last item of that key; of an empty batch it
   returns 0 and leaves everything as it was *)
C32_BulkIsSequence == [][(Reads("bulk_upsert") /\ ret'.ok) => BulkIsSequence]_vars

(* A batch of two items of one natural key has returned 2 and left one row,
   with the title of the second item *)
C32_Witness ==
    /\ ret.op = "bulk_upsert"
    /\ ret.ok
    /\ ret.out = Some(2)
    /\ ret.arg[1].crawler_name = ret.arg[2].crawler_name
    /\ ret.arg[1].article_id = ret.arg[2].article_id
    /\ ret.arg[1].title # ret.arg[2].title
    /\ \A r \in RowsByKey(tx.articles, ret.arg[1].crawler_name, ret.arg[1].article_id) :
          r.title = Some(ret.arg[2].title)
    /\ Cardinality(RowsByKey(tx.articles, ret.arg[1].crawler_name, ret.arg[1].article_id)) = 1

(* A bulk_upsert has raised in the scope, which is still to exit *)
BulkRaised == ret.op = "bulk_upsert" /\ ~ret.ok /\ scope.st = "raised"

(* The exit of a scope in which an error was raised *)
RolledBack ==
    /\ db' = db
    /\ scope'.st = "closed" =>
          /\ tx' = db
          /\ scope'.commits = scope.commits
          /\ scope'.rollbacks = scope.rollbacks + 1

(* C33: when the upsert of an item raises, bulk_upsert raises into the
   scope, and the scope exits with a rollback: nothing the batch wrote,
   the items before the failing one included, is committed *)
C33_AllOrNothing ==
    [][/\ (Reads("bulk_upsert") /\ ~ret'.ok) =>
             (scope'.st = "raised" /\ scope'.error = Some("IntegrityError") /\ db' = db)
       /\ BulkRaised => RolledBack]_vars

(* The scope has exited after a batch whose second item raised; the row of
   its first item, which the transaction held, is not in the database *)
C33_Witness ==
    /\ ret.op = "bulk_upsert"
    /\ ~ret.ok
    /\ Len(ret.arg) = 2
    /\ scope.st = "closed"
    /\ scope.rollbacks = 1
    /\ scope.error = Some("IntegrityError")
    /\ IsComplete(ret.arg[1])
    /\ RowsByKey(db.articles, ret.arg[1].crawler_name, ret.arg[1].article_id) = {}
    /\ tx = db

(* A step that is a call of cleanup_old_records *)
Cleans == steps' = steps + 1 /\ ret'.op = "cleanup_old_records"

(* The records of the table whose window_start lies more than the minutes
   asked for before the time of the call *)
OlderThanCutoff ==
    {r \in RateTable(db, db.history.repo) :
        now' - r.window_start > ret'.arg.older_than_minutes * 60}

CleanupExact ==
    /\ ret'.arg.older_than_minutes >= 1
    /\ RateTable(db', db.history.repo) = RateTable(db, db.history.repo) \ OlderThanCutoff
    /\ ret'.out = Some(Cardinality(OlderThanCutoff))
    /\ db'.articles = db.articles
    /\ db'.api_keys = db.api_keys
    /\ db.history.repo = "guest" => db'.api_key_rate_limits = db.api_key_rate_limits
    /\ db.history.repo = "key" => db'.guest_rate_limits = db.guest_rate_limits

(* The call decides, and leaves the identity's record, as the same call does
   in the behaviour with the same requests and no cleanup *)
AsWithoutCleanup ==
    LET h == db.history
        plain == check_and_increment(WithRateTable(db, h.repo, h.shadow), h.repo, h.limit, now')
    IN  /\ ret'.out = Some(plain.allowed)
        /\ RateRows(db', h.repo) = RateRows(WithRateTable(db, h.repo, plain.rows), h.repo)

(* C34: cleanup_old_records with older_than_minutes >= 1 deletes exactly the
   records whose window_start is older than the cutoff, returns their number
   and leaves every other record unchanged; and every call of
   check_and_increment, whatever cleanups came before it, decides as it does
   without them and leaves the same request_count and window_start *)
C34_CleanupTransparent == [][(Cleans => CleanupExact) /\ (Calls => AsWithoutCleanup)]_vars

(* A request is admitted after a cleanup deleted the identity's record, where
   without the cleanup the record's window had expired *)
C34_Witness ==
    /\ ret.op = "check_and_increment"
    /\ ret.out = Some(TRUE)
    /\ db.history.cleaned
    /\ db.history.limit = 1
    /\ RateRow(db).request_count = 1
    /\ RateRow(db).window_start = now
    /\ RateRow(db) \in db.history.shadow

(* C35: when two requests of an identity that has no record run
   check_and_increment concurrently in separate sessions, every call
   completes without a database error, and the identity has exactly one
   record afterwards *)
C35_FirstRequestsComplete ==
    ret.op = "check_and_increment" =>
        /\ ret.ok
        /\ Cardinality({g \in db.guest_rate_limits : g.ip_address = RaceIp}) = 1

----------------------------------------------------------------------------
(* Properties of cursor polling *)

(* How many times the client received the id *)
TimesReceived(id) == Cardinality({i \in 1..Len(req.received) : req.received[i] = id})

AllReceivedOnce ==
    \A r \in db.articles : r.deleted_at = Null => TimesReceived(r.id) = 1

(* C36: a client that polls list_articles with after set to the greatest id
   it has received, a fixed limit and offset 0 eventually has received every
   non-deleted article exactly once, however many articles are inserted
   between two polls *)
C36_PollReceivesAll == <>[]AllReceivedOnce

====
